---- MODULE Spec2Model ----
(***************************************************************************)
(* Model of the RAG question-answering backend (src/backend):              *)
(*   - admission control of /chat and /chat/stream        (app.py)         *)
(*   - one request through the generation agent           (agent.py)       *)
(*   - the retry helper of the retrieval service          (retrieve.py)    *)
(*   - the citation layer's pure functions                (agent.py)       *)
(* Each part has its own specification over the same variables; the        *)
(* variables of the other parts stay at their initial values.              *)
(***************************************************************************)
EXTENDS Integers, Sequences, FiniteSets, TLC

VARIABLES
    \* ---- admission control (app.py) ----
    current_requests,   \* _current_requests
    reqs,               \* number of requests at each position of the handlers
    last_exit,          \* how the last request to leave a handler left it
    \* ---- retry helper (retrieve.py) ----
    attempt,            \* loop index of _retry_with_backoff
    delay,              \* current backoff delay, in seconds
    last_exception,     \* last_exception
    retry_pc,           \* position inside _retry_with_backoff
    attempt_log,        \* outcome of every call of coro_func made so far
    sleeps,             \* the delays slept so far
    retry_result,       \* what the caller of _retry_with_backoff received
    \* ---- citation layer applied to a list of tool results (agent.py) ----
    cite_input,         \* tool_results passed to extract_and_validate_citations
    cite_arg,           \* the caller's list as it was before the call
    cite_output,        \* the returned citations (Null before the call)
    \* ---- one request through the agent (agent.py, app.py) ----
    endpoint,           \* "chat" or "stream"
    selected_text,      \* chat_request.selected_text
    api_key_set,        \* GEMINI_API_KEY is set (or _external_client exists)
    pc,                 \* position of the request
    tools,              \* the tools of the agent build_agent returned
    sdk,                \* the events the agents SDK has produced in this run
    tool_results,       \* tool_results of run_agent_streamed
    full_answer,        \* full_answer of run_agent_streamed
    events,             \* the events run_agent_streamed has yielded
    sse,                \* the records generate_stream has yielded
    agent_state,        \* run_agent / run_agent_streamed: running, returned, raised
    agent_result,       \* the dict run_agent returned
    response,           \* the HTTP response of /chat
    called,             \* citation-layer functions chat() has called
    \* ---- one call of a function of the citation / fallback layer ----
    call,               \* the function called and its arguments
    ret,                \* what it returned (Null before the call)
    \* ---- one call of search / search_book_content (retrieve.py, agent.py) ----
    search_args,        \* the caller and the arguments (query, limit, score_threshold)
    search_pc,          \* position inside search_book_content / search
    query_text,         \* query_text of search (after strip and truncation)
    warnings,           \* warnings of search
    external_calls,     \* the embedding and index operations completed so far
    search_result,      \* what search returned or raised
    tool_payload,       \* the JSON string search_book_content returned
    \* ---- chat requests and the session store (app.py, db.py) ----
    handlers,           \* the locals of each request
    db_sessions,        \* table sessions, the set of its rows
    db_conversations,   \* table conversations, in the order of insertion
    clock,              \* the time of the next database write
    \* ---- one call of chunk_text (main.py) ----
    chunk_input,        \* text
    chunk_start,        \* start
    chunk_position,     \* position
    chunk_list,         \* chunks
    chunk_pc,           \* "loop" or "returned"
    \* ---- ingestion runs over one URL (main.py) ----
    page,               \* the text the site serves for the URL
    collection,         \* the points of the URL in the vector collection
    scroll_order,       \* chunk positions in the order of their point ids
    ingest_pc,          \* position of main() in its loop body
    ingest_run,         \* the locals of the loop body
    ingest_outcome,     \* how the last run of the loop body ended
    last_ingested,      \* text of the last run that stored the document
    ingest_runs         \* the runs started so far

admVars   == <<current_requests, reqs, last_exit>>
retryVars == <<attempt, delay, last_exception, retry_pc, attempt_log, sleeps, retry_result>>
citeVars  == <<cite_input, cite_arg, cite_output>>
agentVars == <<endpoint, selected_text, api_key_set, pc, tools, sdk, tool_results,
               full_answer, events, sse, agent_state, agent_result, response, called>>
searchVars == <<search_args, search_pc, query_text, warnings, external_calls,
                search_result, tool_payload>>
chatVars == <<handlers, db_sessions, db_conversations, clock>>
chunkVars == <<chunk_input, chunk_start, chunk_position, chunk_list, chunk_pc>>
ingestVars == <<page, collection, scroll_order, ingest_pc, ingest_run, ingest_outcome,
                last_ingested, ingest_runs>>
layerVars == <<call, ret, searchVars, chatVars, chunkVars, ingestVars>>
vars      == <<current_requests, reqs, last_exit,
               attempt, delay, last_exception, retry_pc, attempt_log, sleeps, retry_result,
               cite_input, cite_arg, cite_output,
               endpoint, selected_text, api_key_set, pc, tools, sdk, tool_results,
               full_answer, events, sse, agent_state, agent_result, response, called,
               call, ret,
               search_args, search_pc, query_text, warnings, external_calls,
               search_result, tool_payload,
               handlers, db_sessions, db_conversations, clock,
               chunk_input, chunk_start, chunk_position, chunk_list, chunk_pc,
               page, collection, scroll_order, ingest_pc, ingest_run, ingest_outcome,
               last_ingested, ingest_runs>>

NoneVal == "None"

\* Optional values: None, or a value.
Null   == [null |-> TRUE]
Val(v) == [null |-> FALSE, v |-> v]
\* Python truthiness of an optional string or list.
Truthy(x) == (~ x.null) /\ x.v # <<>>

Max2(a, b) == IF a >= b THEN a ELSE b
Min2(a, b) == IF a <= b THEN a ELSE b

(***************************************************************************)
(* Admission control: app.py                                               *)
(***************************************************************************)
MAX_CONCURRENT_REQUESTS == 10

\* Number of requests that arrive in one run of the model.
MaxRequests == 11

\* Positions of a request.  "new": not yet arrived.  "chat_running": inside
\* the try block of chat().  "stream_pending": chat_stream() has returned its
\* StreamingResponse and generate_stream() has not been started.
\* "streaming": inside the try block of generate_stream().  "finished": the
\* handler's finally block has run.  "rejected": HTTP 429.  "unconsumed": the
\* response was discarded without generate_stream() ever being started.
Phases == {"new", "chat_running", "stream_pending", "streaming",
           "finished", "rejected", "unconsumed"}

ChatOutcomes   == {"chat_200", "chat_400", "chat_500"}
StreamOutcomes == {"stream_done", "stream_error", "stream_closed"}

InitAdmission ==
    /\ current_requests = 0
    /\ reqs = [p \in Phases |-> IF p = "new" THEN MaxRequests ELSE 0]
    /\ last_exit = NoneVal

NoException == [cls |-> "None", msg |-> {}]
NoResult    == [kind |-> "none"]

NoResponse == [status |-> 0]

InitAgentIdle ==
    /\ endpoint = "none"
    /\ selected_text = Null
    /\ api_key_set = FALSE
    /\ pc = "idle"
    /\ tools = {}
    /\ sdk = <<>>
    /\ tool_results = <<>>
    /\ full_answer = <<>>
    /\ events = <<>>
    /\ sse = <<>>
    /\ agent_state = "idle"
    /\ agent_result = NoResult
    /\ response = NoResponse
    /\ called = {}

InitCiteIdle ==
    /\ cite_input = <<>>
    /\ cite_arg = <<>>
    /\ cite_output = Null

NoCall == [fn |-> "none"]

NoArgs == [via |-> "none"]

InitSearchIdle ==
    /\ search_args = NoArgs
    /\ search_pc = "idle"
    /\ query_text = <<>>
    /\ warnings = <<>>
    /\ external_calls = <<>>
    /\ search_result = NoResult
    /\ tool_payload = Null

\* No request, empty tables.
InitChatIdle ==
    /\ handlers = <<>>
    /\ db_sessions = <<>>
    /\ db_conversations = <<>>
    /\ clock = 0

\* chunk_text is not running.
InitChunkIdle ==
    /\ chunk_input = <<>>
    /\ chunk_start = 0
    /\ chunk_position = 0
    /\ chunk_list = <<>>
    /\ chunk_pc = "idle"

\* The locals of the loop body of main() before extract_text_from_url.
NoRun == [text |-> <<>>, content_hash |-> Null, chunks |-> <<>>]

\* No ingestion, empty collection.
InitIngestIdle ==
    /\ page = <<>>
    /\ collection = {}
    /\ scroll_order = <<>>
    /\ ingest_pc = "off"
    /\ ingest_run = NoRun
    /\ ingest_outcome = "none"
    /\ last_ingested = Null
    /\ ingest_runs = 0

InitLayerIdle ==
    /\ call = NoCall
    /\ ret = Null
    /\ InitSearchIdle
    /\ InitChatIdle
    /\ InitChunkIdle
    /\ InitIngestIdle

InitRetryIdle ==
    /\ attempt = 0
    /\ delay = 0
    /\ last_exception = NoException
    /\ retry_pc = "idle"
    /\ attempt_log = <<>>
    /\ sleeps = <<>>
    /\ retry_result = NoResult

\* acquire_request_slot with the check off by one.
acquire_request_slot_offbyone(c) ==
    IF c > MAX_CONCURRENT_REQUESTS
    THEN [ok |-> FALSE, count |-> c]
    ELSE [ok |-> TRUE, count |-> c + 1]

\* acquire_request_slot(): check-and-increment under _rate_lock.  The body
\* holds no await, so under the event loop it runs as one step.
acquire_request_slot(c) ==
    IF c >= MAX_CONCURRENT_REQUESTS
    THEN [ok |-> FALSE, count |-> c]
    ELSE [ok |-> TRUE, count |-> c + 1]

\* release_request_slot(): decrement under _rate_lock, floored at 0.
release_request_slot(c) == Max2(0, c - 1)

Move(from, to) ==
    reqs' = [reqs EXCEPT ![from] = @ - 1, ![to] = @ + 1]

\* chat(): the rate-limit step at the top of the handler.
ChatAcquire ==
    /\ reqs["new"] > 0
    /\ LET a == acquire_request_slot(current_requests) IN
         /\ current_requests' = a.count
         /\ IF a.ok
            THEN Move("new", "chat_running") /\ UNCHANGED last_exit
            ELSE Move("new", "rejected") /\ last_exit' = "429"
    /\ UNCHANGED <<retryVars, citeVars, agentVars, layerVars>>

\* chat(): the try block ends (response, HTTPException raised inside it, or
\* any other exception) and the finally block releases the slot.
ChatFinish(outcome) ==
    /\ reqs["chat_running"] > 0
    /\ current_requests' = release_request_slot(current_requests)
    /\ Move("chat_running", "finished")
    /\ last_exit' = outcome
    /\ UNCHANGED <<retryVars, citeVars, agentVars, layerVars>>

\* chat_stream(): the rate-limit step; on success the handler returns a
\* StreamingResponse wrapping the not yet started generate_stream().
StreamAcquire ==
    /\ reqs["new"] > 0
    /\ LET a == acquire_request_slot(current_requests) IN
         /\ current_requests' = a.count
         /\ IF a.ok
            THEN Move("new", "stream_pending") /\ UNCHANGED last_exit
            ELSE Move("new", "rejected") /\ last_exit' = "429"
    /\ UNCHANGED <<retryVars, citeVars, agentVars, layerVars>>

\* The server starts iterating the response body: generate_stream() enters
\* its try block.
StreamStart ==
    /\ reqs["stream_pending"] > 0
    /\ Move("stream_pending", "streaming")
    /\ UNCHANGED <<current_requests, last_exit>>
    /\ UNCHANGED <<retryVars, citeVars, agentVars, layerVars>>

\* The response is discarded before its body is iterated (the client went
\* away before the response started): generate_stream() never runs, and a
\* generator that was never started runs no finally block.
StreamUnconsumed ==
    /\ reqs["stream_pending"] > 0
    /\ Move("stream_pending", "unconsumed")
    /\ last_exit' = "stream_unconsumed"
    /\ UNCHANGED current_requests
    /\ UNCHANGED <<retryVars, citeVars, agentVars, layerVars>>

\* generate_stream(): the stream ends (done, error, or the generator is
\* closed at a yield) and the finally block releases the slot.
StreamFinish(outcome) ==
    /\ reqs["streaming"] > 0
    /\ current_requests' = release_request_slot(current_requests)
    /\ Move("streaming", "finished")
    /\ last_exit' = outcome
    /\ UNCHANGED <<retryVars, citeVars, agentVars, layerVars>>

Next ==
    \/ ChatAcquire
    \/ \E o \in ChatOutcomes : ChatFinish(o)
    \/ StreamAcquire
    \/ StreamStart
    \/ StreamUnconsumed
    \/ \E o \in StreamOutcomes : StreamFinish(o)

Init == InitAdmission /\ InitRetryIdle /\ InitCiteIdle /\ InitAgentIdle /\ InitLayerIdle

Spec == Init /\ [][Next]_vars

InFlight == reqs["chat_running"] + reqs["stream_pending"] + reqs["streaming"]

\* C1: under any interleaving of /chat and /chat/stream requests the counter
\* never exceeds MAX_CONCURRENT_REQUESTS, and a request that arrives while
\* MAX_CONCURRENT_REQUESTS slots are held is rejected in that same step with
\* 429 and leaves the counter unchanged (and only then is a request rejected).
C1_AdmissionBound ==
    /\ [](current_requests <= MAX_CONCURRENT_REQUESTS)
    /\ [][ (reqs'["new"] < reqs["new"]) =>
             IF current_requests >= MAX_CONCURRENT_REQUESTS
             THEN /\ current_requests' = current_requests
                  /\ reqs'["rejected"] = reqs["rejected"] + 1
                  /\ last_exit' = "429"
                  /\ InFlight' = InFlight
             ELSE /\ current_requests' = current_requests + 1
                  /\ reqs'["rejected"] = reqs["rejected"]
                  /\ InFlight' = InFlight + 1 ]_vars

C1_Witness ==
    /\ current_requests = MAX_CONCURRENT_REQUESTS
    /\ reqs["rejected"] >= 1
    /\ reqs["chat_running"] >= 1
    /\ reqs["streaming"] >= 1

\* C2: every admitted request releases its slot exactly once on every exit
\* path; hence the counter equals the number of admitted requests still in
\* flight, and is 0 again once all of them have left their handlers.
C2_ReleasedOnEveryExit ==
    /\ current_requests = InFlight
    /\ (InFlight = 0 => current_requests = 0)

(***************************************************************************)
(* Retry helper: retrieve.py, _retry_with_backoff                          *)
(***************************************************************************)
MAX_RETRIES        == 3
BASE_DELAY_SECONDS == 1
MAX_DELAY_SECONDS  == 10
BACKOFF_MULTIPLIER == 2

\* An exception is its class and the set of the substrings, among those the
\* helper looks for, that str(e).lower() contains.
Exc(cls, msg) == [kind |-> "exc", cls |-> cls, msg |-> msg]

\* What one call of coro_func can do: return, raise asyncio.TimeoutError, or
\* raise another exception whose message holds some of the searched words.
CallOutcomes ==
    { [kind |-> "ok", value |-> "embedding"] } \cup
    { Exc("asyncio.TimeoutError", {}),
      Exc("Exception", {"timeout"}),
      Exc("Exception", {"connection"}),
      Exc("Exception", {"connection", "timeout"}),
      Exc("Exception", {"429"}),
      Exc("Exception", {"503"}),
      Exc("Exception", {"502"}),
      Exc("Exception", {}),
      Exc("ValueError", {"400"}) }

\* is_retryable with every failure treated as retryable.
is_retryable_always(e) == TRUE

\* is_retryable = any(["connection" in error_msg, "timeout" in error_msg,
\*                     "429" in error_msg, "503" in error_msg, "502" in error_msg])
is_retryable(e) ==
    \/ "connection" \in e.msg
    \/ "timeout" \in e.msg
    \/ "429" \in e.msg
    \/ "503" \in e.msg
    \/ "502" \in e.msg

\* The statements after the try statement of one loop iteration, and the loop
\* header: sleep only if another attempt follows.
AfterFailedAttempt ==
    IF attempt < MAX_RETRIES - 1
    THEN /\ retry_pc' = "sleep"
         /\ UNCHANGED <<attempt, delay, sleeps>>
    ELSE /\ retry_pc' = "exhausted"
         /\ attempt' = attempt + 1
         /\ UNCHANGED <<delay, sleeps>>

\* Entry of _retry_with_backoff: last_exception = None, delay = base_delay.
InitRetry ==
    /\ InitAdmission
    /\ InitCiteIdle
    /\ InitAgentIdle
    /\ InitLayerIdle
    /\ attempt = 0
    /\ delay = BASE_DELAY_SECONDS
    /\ last_exception = NoException
    /\ retry_pc = "call"
    /\ attempt_log = <<>>
    /\ sleeps = <<>>
    /\ retry_result = NoResult

\* One iteration of the for loop up to the end of its try statement:
\* await coro_func(...), and the except clauses.
RetryCall(o) ==
    /\ retry_pc = "call"
    /\ attempt < MAX_RETRIES
    /\ attempt_log' = Append(attempt_log, o)
    /\ IF o.kind = "ok"
       THEN /\ retry_result' = [kind |-> "return", value |-> o.value]
            /\ retry_pc' = "returned"
            /\ UNCHANGED <<attempt, delay, sleeps, last_exception>>
       ELSE IF o.cls = "asyncio.TimeoutError"
       THEN /\ last_exception' = o
            /\ AfterFailedAttempt
            /\ UNCHANGED retry_result
       ELSE /\ last_exception' = o
            /\ IF ~ is_retryable(o)
               THEN /\ retry_result' = [kind |-> "raise", exc |-> o, wrapped |-> FALSE]
                    /\ retry_pc' = "raised"
                    /\ UNCHANGED <<attempt, delay, sleeps>>
               ELSE /\ AfterFailedAttempt
                    /\ UNCHANGED retry_result
    /\ UNCHANGED <<admVars, citeVars, agentVars, layerVars>>

\* await asyncio.sleep(delay); delay = min(delay * backoff_multiplier, max_delay)
RetrySleep ==
    /\ retry_pc = "sleep"
    /\ sleeps' = Append(sleeps, delay)
    /\ delay' = Min2(delay * BACKOFF_MULTIPLIER, MAX_DELAY_SECONDS)
    /\ attempt' = attempt + 1
    /\ retry_pc' = "call"
    /\ UNCHANGED <<last_exception, attempt_log, retry_result>>
    /\ UNCHANGED <<admVars, citeVars, agentVars, layerVars>>

\* After the loop: raise TimeoutError(...) from last_exception if it is an
\* asyncio.TimeoutError, else raise ConnectionError(...) from last_exception.
RetryExhausted ==
    /\ retry_pc = "exhausted"
    /\ retry_result' =
         [kind |-> "raise",
          exc |-> Exc(IF last_exception.cls = "asyncio.TimeoutError"
                      THEN "TimeoutError" ELSE "ConnectionError", {}),
          wrapped |-> TRUE]
    /\ retry_pc' = "raised_exhausted"
    /\ UNCHANGED <<attempt, delay, sleeps, last_exception, attempt_log>>
    /\ UNCHANGED <<admVars, citeVars, agentVars, layerVars>>

NextRetry ==
    \/ \E o \in CallOutcomes : RetryCall(o)
    \/ RetrySleep
    \/ RetryExhausted

SpecRetry == InitRetry /\ [][NextRetry]_vars

IsFailure(o) == o.kind = "exc"

\* The failures the helper is meant to retry: a timeout, a connection failure,
\* HTTP 429, 502 or 503.
Transient(o) ==
    /\ IsFailure(o)
    /\ \/ o.cls = "asyncio.TimeoutError"
       \/ o.msg \cap {"timeout", "connection", "429", "502", "503"} # {}

LastOutcome == attempt_log[Len(attempt_log)]

\* C5: coro_func is called at most 3 times; every attempt but the last one
\* made failed with a transient failure; a failure that is not transient is
\* re-raised unchanged right after its attempt, with no sleep after it; a
\* success returns its value at once.
C5_RetryPolicy ==
    /\ Len(attempt_log) <= 3
    /\ \A i \in 1..(Len(attempt_log) - 1) : Transient(attempt_log[i])
    /\ (retry_pc = "call" => Len(sleeps) = Len(attempt_log))
    /\ (retry_pc \notin {"call", "sleep"} => Len(sleeps) = Len(attempt_log) - 1)
    /\ (attempt_log # <<>> /\ IsFailure(LastOutcome) /\ ~ Transient(LastOutcome)) =>
          /\ retry_pc = "raised"
          /\ retry_result = [kind |-> "raise", exc |-> LastOutcome, wrapped |-> FALSE]
          /\ Len(sleeps) = Len(attempt_log) - 1
    /\ (attempt_log # <<>> /\ LastOutcome.kind = "ok") =>
          /\ retry_pc = "returned"
          /\ retry_result = [kind |-> "return", value |-> LastOutcome.value]
    /\ (retry_pc = "raised" => ~ Transient(LastOutcome))

C5_Witness ==
    /\ retry_pc = "raised"
    /\ Len(attempt_log) = 3
    /\ Len(sleeps) = 2

IsTimeout(o) ==
    /\ IsFailure(o)
    /\ \/ o.cls = "asyncio.TimeoutError"
       \/ "timeout" \in o.msg

\* C6: when all 3 attempts failed with transient failures the caller receives
\* TimeoutError if the last failure was a timeout and ConnectionError
\* otherwise, never the original error.
C6_ExhaustedKind ==
    retry_pc = "raised_exhausted" =>
        /\ Len(attempt_log) = 3
        /\ retry_result.kind = "raise"
        /\ retry_result.wrapped
        /\ retry_result.exc # LastOutcome
        /\ retry_result.exc.cls =
             IF IsTimeout(LastOutcome) THEN "TimeoutError" ELSE "ConnectionError"

(***************************************************************************)
(* Texts.  A text is a sequence of runs [c, n]: n >= 1 copies of the        *)
(* character c.  Slicing, strip and concatenation are computed on runs.    *)
(***************************************************************************)
Run(c, n) == [c |-> c, n |-> n]

RECURSIVE TLen(_)
\* len(text)
TLen(t) == IF t = <<>> THEN 0 ELSE Head(t).n + TLen(Tail(t))

RECURSIVE TTake(_, _)
\* text[:k]
TTake(t, k) ==
    IF k <= 0 \/ t = <<>> THEN <<>>
    ELSE IF Head(t).n <= k
         THEN <<Head(t)>> \o TTake(Tail(t), k - Head(t).n)
         ELSE <<Run(Head(t).c, k)>>

IsSpace(c) == c \in {" ", "\n", "\t"}

RECURSIVE TLStrip(_)
TLStrip(t) == IF t # <<>> /\ IsSpace(Head(t).c) THEN TLStrip(Tail(t)) ELSE t

RECURSIVE TRStrip(_)
TRStrip(t) ==
    IF t # <<>> /\ IsSpace(t[Len(t)].c) THEN TRStrip(SubSeq(t, 1, Len(t) - 1)) ELSE t

\* text.strip()
TStrip(t) == TRStrip(TLStrip(t))

RECURSIVE TNorm(_)
\* The same text with adjacent runs of one character merged.
TNorm(t) ==
    IF Len(t) <= 1 THEN t
    ELSE IF t[1].c = t[2].c
         THEN TNorm(<<Run(t[1].c, t[1].n + t[2].n)>> \o SubSeq(t, 3, Len(t)))
         ELSE <<t[1]>> \o TNorm(Tail(t))

Ellipsis == <<Run(".", 3)>>

SNIPPET_LENGTH == 200

\* snippet = text[:200].strip(); if len(text) > 200: snippet += "...";
\* the citation takes snippet[:200].
make_snippet(text) ==
    LET stripped == TStrip(TTake(text, SNIPPET_LENGTH))
        snippet  == IF TLen(text) > SNIPPET_LENGTH THEN stripped \o Ellipsis ELSE stripped
    IN  TNorm(TTake(snippet, SNIPPET_LENGTH))

(***************************************************************************)
(* Citation layer: agent.py                                                *)
(***************************************************************************)
\* One entry of a tool output's "results" list, as search_book_content
\* builds it.  similarity_score is in hundredths.
ToolResult(url, pos, section, title, score, text) ==
    [source_url |-> url, chunk_position |-> pos, section |-> section, title |-> title,
     similarity_score |-> score, chunk_text |-> text]

ShortText == <<Run("a", 12)>>
LongText  == <<Run("b", 150), Run(" ", 60), Run("c", 40)>>

\* The retrieval hits used in the model: two hits share a
\* (source_url, chunk_position) pair and differ in everything else.
Hit1 == ToolResult("/docs/m1", 0, "Kinematics", "Module 1", 62, ShortText)
Hit2 == ToolResult("/docs/m1", 0, "Control", "Module 1 (copy)", 40, LongText)
Hit3 == ToolResult("/docs/m1", 1, "Control", "Module 1", 10, LongText)
Hit4 == ToolResult("/docs/m2", 0, "Sensors", "Module 2", 45, ShortText)

ResultDomain == {Hit1, Hit2, Hit3, Hit4}

\* key = (result.get("source_url", ""), result.get("chunk_position", 0))
CiteKey(r) == <<r.source_url, r.chunk_position>>

\* SourceCitation(...) built from one result.
SourceCitation(r) ==
    [kind |-> "SourceCitation",
     source_url |-> r.source_url, title |-> r.title, section |-> r.section,
     chunk_position |-> r.chunk_position, similarity_score |-> r.similarity_score,
     snippet |-> make_snippet(r.chunk_text)]

RECURSIVE CiteLoop(_, _, _)
\* The for loop of extract_and_validate_citations: results still to visit,
\* the seen set, the citations so far.
CiteLoop(results, seen, citations) ==
    IF results = <<>> THEN citations
    ELSE LET result == Head(results) IN
         IF CiteKey(result) \in seen
         THEN CiteLoop(Tail(results), seen, citations)
         ELSE CiteLoop(Tail(results), seen \cup {CiteKey(result)},
                       Append(citations, SourceCitation(result)))

RECURSIVE CiteLoopLastWins(_, _, _)
\* The loop with a later duplicate replacing the citation already made.
CiteLoopLastWins(results, seen, citations) ==
    IF results = <<>> THEN citations
    ELSE LET result == Head(results) IN
         IF CiteKey(result) \in seen
         THEN CiteLoopLastWins(Tail(results), seen,
                [i \in 1..Len(citations) |->
                    IF <<citations[i].source_url, citations[i].chunk_position>> = CiteKey(result)
                    THEN SourceCitation(result) ELSE citations[i]])
         ELSE CiteLoopLastWins(Tail(results), seen \cup {CiteKey(result)},
                       Append(citations, SourceCitation(result)))

\* extract_and_validate_citations with the position in the list taken for the
\* chunk position.
extract_index_as_position(results) ==
    LET cs == IF results = <<>> THEN <<>> ELSE CiteLoop(results, {}, <<>>)
    IN  [i \in 1..Len(cs) |-> [cs[i] EXCEPT !.chunk_position = i + 1]]

\* extract_and_validate_citations with last-occurrence-wins deduplication.
extract_last_wins(results) == CiteLoopLastWins(results, {}, <<>>)

\* extract_and_validate_citations(agent_output, tool_results); agent_output
\* is not read by the function.
extract_and_validate_citations(results) ==
    IF results = <<>> THEN <<>> ELSE CiteLoop(results, {}, <<>>)

\* Largest list of tool results given to the citation layer.
MaxResults == 4

RECURSIVE SeqsUpTo(_, _)
SeqsUpTo(S, n) ==
    IF n = 0 THEN {<<>>}
    ELSE LET shorter == SeqsUpTo(S, n - 1) IN
         shorter \cup {Append(q, x) : q \in {t \in shorter : Len(t) = n - 1}, x \in S}

InitCite ==
    /\ InitAdmission
    /\ InitRetryIdle
    /\ InitAgentIdle
    /\ InitLayerIdle
    /\ cite_input \in SeqsUpTo(ResultDomain, MaxResults)
    /\ cite_arg = cite_input
    /\ cite_output = Null

\* citations = extract_and_validate_citations(answer, tool_results)
ApplyExtract ==
    /\ cite_output = Null
    /\ cite_output' = Val(extract_and_validate_citations(cite_input))
    /\ UNCHANGED <<cite_input, cite_arg>>
    /\ UNCHANGED <<admVars, retryVars, agentVars, layerVars>>

NextCite == ApplyExtract

SpecCite == InitCite /\ [][NextCite]_vars

\* Index of the first result of the list that carries the pair k.
FirstIndex(results, k) ==
    CHOOSE i \in 1..Len(results) :
        /\ CiteKey(results[i]) = k
        /\ \A j \in 1..(i - 1) : CiteKey(results[j]) # k

KeysOf(results) == {CiteKey(results[i]) : i \in 1..Len(results)}

\* C10: the returned list holds exactly one citation per distinct
\* (source_url, chunk_position) pair of the input, each built from the first
\* result carrying its pair, in the order in which the pairs first occur; the
\* caller's list is left as it was.
C10_DedupFirstSeen ==
    (~ cite_output.null) =>
        LET out == cite_output.v IN
        /\ Len(out) = Cardinality(KeysOf(cite_arg))
        /\ \A i \in 1..Len(out) :
             LET k == <<out[i].source_url, out[i].chunk_position>> IN
             /\ k \in KeysOf(cite_arg)
             /\ out[i] = SourceCitation(cite_arg[FirstIndex(cite_arg, k)])
             /\ \A j \in 1..Len(out) :
                  (i < j) => FirstIndex(cite_arg, k)
                               < FirstIndex(cite_arg, <<out[j].source_url, out[j].chunk_position>>)
        /\ cite_input = cite_arg

C10_Witness ==
    /\ ~ cite_output.null
    /\ Len(cite_arg) = 4
    /\ Len(cite_output.v) = 2
    /\ CiteKey(cite_arg[1]) = CiteKey(cite_arg[3])
    /\ cite_arg[1] # cite_arg[3]

(***************************************************************************)
(* One request through the generation agent: agent.py and app.py           *)
(***************************************************************************)
HIGH_CONFIDENCE_THRESHOLD == 50
LOW_CONFIDENCE_THRESHOLD  == 30

\* Largest number of events the agents SDK produces in one run of the model.
MaxSdkEvents == 3

SelectionShort == <<Run("s", 40)>>

\* chat_request.selected_text after validation: None, or a non-empty text.
SelectedTexts == {Null, Val(SelectionShort), Val(LongText)}

\* result.final_output of a completed run: a text, or the empty string.
FinalOutputs == {<<"answer">>, <<>>}

\* str(e) of an exception of the run: a message, or the empty string.
ErrorMessages == {<<"error">>, <<>>}

\* The "results" lists of the tool outputs used in the model.
ToolPayloads == {<<>>, <<Hit1>>, <<Hit3>>, <<Hit1, Hit2>>, <<Hit3, Hit4>>, <<Hit4, Hit1>>}

\* The output of one tool call as the SDK reports it: the JSON string
\* search_book_content returned (its results, or its error payload with
\* results = []), or the SDK's plain-text message for a failed tool call.
ToolOutputs ==
    { [json |-> TRUE, results |-> p, error |-> FALSE] : p \in ToolPayloads } \cup
    { [json |-> TRUE, results |-> <<>>, error |-> TRUE],
      [json |-> FALSE, results |-> <<>>, error |-> FALSE] }

NoOutput == [json |-> FALSE, results |-> <<>>, error |-> FALSE]

SdkEvent(type, what, delta, output) ==
    [type |-> type, what |-> what, delta |-> delta, output |-> output]

RawDelta(d)  == SdkEvent("raw_response_event", "ResponseTextDeltaEvent", d, NoOutput)
RawOther     == SdkEvent("raw_response_event", "other", <<>>, NoOutput)
ItemOther    == SdkEvent("run_item_stream_event", "message_output_item", <<>>, NoOutput)
ItemTool(o)  == SdkEvent("run_item_stream_event", "tool_call_output_item", <<>>, o)

\* What the SDK can produce next for an agent with the given tools: a tool
\* output needs a tool.
SdkEvents(tls) ==
    {RawDelta(<<"tok">>), RawDelta(<<>>), RawOther, ItemOther} \cup
    (IF "search_book_content" \in tls THEN {ItemTool(o) : o \in ToolOutputs} ELSE {})

\* build_agent: tools = [] in selected-text mode, [search_book_content] else.
build_agent_tools(sel) == IF Truthy(sel) THEN {} ELSE {"search_book_content"}

\* parsed = json.loads(output); if "results" in parsed:
\*     tool_results.extend(parsed["results"]); a JSONDecodeError is passed over.
capture_tool_output(results, output) ==
    IF output.json THEN results \o output.results ELSE results

RECURSIVE collect_tool_results(_, _)
\* run_agent: the loop over result.new_items.
collect_tool_results(items, results) ==
    IF items = <<>> THEN results
    ELSE LET item == Head(items) IN
         IF item.type = "run_item_stream_event" /\ item.what = "tool_call_output_item"
         THEN collect_tool_results(Tail(items), capture_tool_output(results, item.output))
         ELSE collect_tool_results(Tail(items), results)

\* create_selected_text_citation(selected_text, relevance_note)
create_selected_text_citation(text, relevance_note) ==
    [kind |-> "SelectedTextCitation", source_type |-> "selected_text",
     selection_length |-> TLen(text), snippet |-> make_snippet(text),
     relevance_note |-> relevance_note]

RECURSIVE MaxScore(_)
\* max(r.get("similarity_score", 0) for r in tool_results), of a non-empty list
MaxScore(results) ==
    IF Len(results) = 1 THEN results[1].similarity_score
    ELSE Max2(results[1].similarity_score, MaxScore(Tail(results)))

\* determine_confidence with the thresholds exclusive.
determine_confidence_strict(results) ==
    IF results = <<>> THEN [low_confidence |-> FALSE, mode |-> "no_results"]
    ELSE IF MaxScore(results) > HIGH_CONFIDENCE_THRESHOLD
         THEN [low_confidence |-> FALSE, mode |-> "full"]
    ELSE IF MaxScore(results) > LOW_CONFIDENCE_THRESHOLD
         THEN [low_confidence |-> TRUE, mode |-> "full"]
    ELSE [low_confidence |-> TRUE, mode |-> "no_results"]

\* determine_confidence(tool_results) -> (low_confidence, mode)
determine_confidence(results) ==
    IF results = <<>> THEN [low_confidence |-> FALSE, mode |-> "no_results"]
    ELSE IF MaxScore(results) >= HIGH_CONFIDENCE_THRESHOLD
         THEN [low_confidence |-> FALSE, mode |-> "full"]
    ELSE IF MaxScore(results) >= LOW_CONFIDENCE_THRESHOLD
         THEN [low_confidence |-> TRUE, mode |-> "full"]
    ELSE [low_confidence |-> TRUE, mode |-> "no_results"]

\* get_fallback_answer naming the sections of all the results.
get_fallback_answer_all_sections(results, error) ==
    IF Truthy(error)
    THEN IF results # <<>>
         THEN Val([text |-> "found_sections_no_detailed_response",
                   sections |-> {results[i].section : i \in 1..Len(results)}])
         ELSE Val([text |-> "unable_to_search", sections |-> {}])
    ELSE IF results = <<>>
         THEN Val([text |-> "outside_scope_with_topics", sections |-> {}])
         ELSE Null

\* get_fallback_answer(tool_results, error): the message is its kind and the
\* section labels it names.
get_fallback_answer(results, error) ==
    IF Truthy(error)
    THEN IF results # <<>>
         THEN Val([text |-> "found_sections_no_detailed_response",
                   sections |-> {results[i].section : i \in 1..Min2(3, Len(results))}])
         ELSE Val([text |-> "unable_to_search", sections |-> {}])
    ELSE IF results = <<>>
         THEN Val([text |-> "outside_scope_with_topics", sections |-> {}])
         ELSE Null

\* chat(): the mode override of the error branch, applied to every request.
mode_after_error_unguarded(sel, mode, results, error) ==
    IF Truthy(error)
    THEN (IF results # <<>> THEN "retrieval_only" ELSE "no_results")
    ELSE mode

\* chat(): if error: ... if not selected_text:
\*     mode = "retrieval_only" if tool_results else "no_results"
mode_after_error(sel, mode, results, error) ==
    IF Truthy(error) /\ ~ Truthy(sel)
    THEN (IF results # <<>> THEN "retrieval_only" ELSE "no_results")
    ELSE mode

\* chat(): from agent_result to the ChatResponse.
chat_response(sel, result) ==
    LET answer  == result.answer
        results == result.tool_results
        error   == result.error
        conf    == determine_confidence(results)
        mode0   == IF Truthy(sel) THEN "selected_text" ELSE conf.mode
        low     == IF Truthy(sel) THEN FALSE ELSE conf.low_confidence
        count   == IF Truthy(sel) THEN 0 ELSE Len(results)
        sources == IF Truthy(sel)
                   THEN <<create_selected_text_citation(
                            sel.v, "Answer derived from provided selection")>>
                   ELSE extract_and_validate_citations(results)
        fallback == IF Truthy(error) THEN get_fallback_answer(results, error) ELSE Null
    IN  [status |-> 200,
         answer |-> answer,
         fallback_message |-> fallback,
         sources |-> sources,
         metadata |-> [retrieval_count |-> count,
                       mode |-> mode_after_error(sel, mode0, results, error),
                       low_confidence |-> low]]

\* chat(): the citation-layer functions the handler calls on that path.
chat_calls(sel, result) ==
    (IF Truthy(sel)
     THEN {"create_selected_text_citation"}
     ELSE {"determine_confidence", "extract_and_validate_citations"})
    \cup (IF Truthy(result.error) THEN {"get_fallback_answer"} ELSE {})

\* The loop body with a sources event yielded after every tool output.
stream_yields_sources_in_loop(e) ==
    IF e.type = "raw_response_event" /\ e.what = "ResponseTextDeltaEvent" /\ e.delta # <<>>
    THEN << [type |-> "delta", content |-> e.delta] >>
    ELSE IF e.type = "run_item_stream_event" /\ e.what = "tool_call_output_item" /\ e.output.json
    THEN << [type |-> "tool_call", name |-> "search_book_content", output |-> e.output],
            [type |-> "sources", data |-> extract_and_validate_citations(e.output.results)] >>
    ELSE <<>>

\* run_agent_streamed: what the body of the async for loop yields for one
\* SDK event.
stream_yields(e) ==
    IF e.type = "raw_response_event" /\ e.what = "ResponseTextDeltaEvent" /\ e.delta # <<>>
    THEN << [type |-> "delta", content |-> e.delta] >>
    ELSE IF e.type = "run_item_stream_event" /\ e.what = "tool_call_output_item" /\ e.output.json
    THEN << [type |-> "tool_call", name |-> "search_book_content", output |-> e.output] >>
    ELSE <<>>

\* generate_stream: the record written for one event of run_agent_streamed
\* (none for a tool_call event).
generate_stream_record(event, sel) ==
    IF event.type = "delta" THEN << [tag |-> "delta", delta |-> event.content] >>
    ELSE IF event.type = "sources"
    THEN << [tag |-> "sources", sources |-> event.data,
             mode |-> IF Truthy(sel) THEN "selected_text" ELSE "full"] >>
    ELSE IF event.type = "done" THEN << [tag |-> "done"] >>
    ELSE IF event.type = "error" THEN << [tag |-> "error", error |-> event.message] >>
    ELSE <<>>

RECURSIVE generate_stream_records(_, _)
generate_stream_records(evs, sel) ==
    IF evs = <<>> THEN <<>>
    ELSE generate_stream_record(Head(evs), sel) \o generate_stream_records(Tail(evs), sel)

\* The request has passed the rate-limit step of its handler.
InitAgent ==
    /\ InitAdmission
    /\ InitRetryIdle
    /\ InitCiteIdle
    /\ InitLayerIdle
    /\ endpoint \in {"chat", "stream"}
    /\ selected_text \in SelectedTexts
    /\ api_key_set \in BOOLEAN
    /\ pc = "handler"
    /\ tools = {}
    /\ sdk = <<>>
    /\ tool_results = <<>>
    /\ full_answer = <<>>
    /\ events = <<>>
    /\ sse = <<>>
    /\ agent_state = "idle"
    /\ agent_result = NoResult
    /\ response = NoResponse
    /\ called = {}

others == <<admVars, retryVars, citeVars, layerVars>>

\* build_agent() at the top of run_agent / run_agent_streamed succeeds.
BuildAgent ==
    /\ pc = "handler"
    /\ api_key_set
    /\ tools' = build_agent_tools(selected_text)
    /\ pc' = "running"
    /\ agent_state' = "running"
    /\ UNCHANGED <<endpoint, selected_text, api_key_set, sdk, tool_results, full_answer,
                   events, sse, agent_result, response, called>>
    /\ UNCHANGED others

\* _get_gemini_client raises EnvironmentError inside build_agent, which both
\* run_agent and run_agent_streamed call before their try statement.  In
\* chat() the exception leaves the handler (500); in generate_stream() it is
\* caught by "except Exception" and written as an error record.
BuildAgentFails ==
    /\ pc = "handler"
    /\ ~ api_key_set
    /\ agent_state' = "raised"
    /\ pc' = "done"
    /\ IF endpoint = "chat"
       THEN /\ response' = [status |-> 500, error_code |-> "INTERNAL_ERROR"]
            /\ UNCHANGED sse
       ELSE /\ sse' = Append(sse, [tag |-> "error", error |-> <<"Missing GEMINI_API_KEY">>])
            /\ UNCHANGED response
    /\ UNCHANGED <<endpoint, selected_text, api_key_set, tools, sdk, tool_results,
                   full_answer, events, agent_result, called>>
    /\ UNCHANGED others

\* /chat: Runner.run makes progress (a model delta, a tool call output, ...).
RunnerEvent(e) ==
    /\ endpoint = "chat"
    /\ pc = "running"
    /\ Len(sdk) < MaxSdkEvents
    /\ sdk' = Append(sdk, e)
    /\ UNCHANGED <<endpoint, selected_text, api_key_set, pc, tools, tool_results,
                   full_answer, events, sse, agent_state, agent_result, response, called>>
    /\ UNCHANGED others

\* run_agent: Runner.run returned; tool_results are read from new_items.
RunAgentReturns(final_output) ==
    /\ endpoint = "chat"
    /\ pc = "running"
    /\ agent_result' = [answer |-> Val(final_output),
                        tool_results |-> collect_tool_results(sdk, <<>>),
                        error |-> Null]
    /\ agent_state' = "returned"
    /\ pc' = "agent_returned"
    /\ UNCHANGED <<endpoint, selected_text, api_key_set, tools, sdk, tool_results,
                   full_answer, events, sse, response, called>>
    /\ UNCHANGED others

\* run_agent: Runner.run raised; except Exception returns the error dict.
RunAgentFails(message) ==
    /\ endpoint = "chat"
    /\ pc = "running"
    /\ agent_result' = [answer |-> Null, tool_results |-> <<>>, error |-> Val(message)]
    /\ agent_state' = "returned"
    /\ pc' = "agent_returned"
    /\ UNCHANGED <<endpoint, selected_text, api_key_set, tools, sdk, tool_results,
                   full_answer, events, sse, response, called>>
    /\ UNCHANGED others

\* chat(): "Process results" up to the returned ChatResponse.
ChatRespond ==
    /\ endpoint = "chat"
    /\ pc = "agent_returned"
    /\ response' = chat_response(selected_text, agent_result)
    /\ called' = chat_calls(selected_text, agent_result)
    /\ pc' = "done"
    /\ UNCHANGED <<endpoint, selected_text, api_key_set, tools, sdk, tool_results,
                   full_answer, events, sse, agent_state, agent_result>>
    /\ UNCHANGED others

\* /chat/stream: one iteration of "async for event in result.stream_events()"
\* and of the loop of generate_stream that consumes what it yields.
StreamEvent(e) ==
    /\ endpoint = "stream"
    /\ pc = "running"
    /\ Len(sdk) < MaxSdkEvents
    /\ sdk' = Append(sdk, e)
    /\ full_answer' =
         IF e.type = "raw_response_event" /\ e.what = "ResponseTextDeltaEvent"
         THEN full_answer \o e.delta ELSE full_answer
    /\ tool_results' =
         IF e.type = "run_item_stream_event" /\ e.what = "tool_call_output_item"
         THEN capture_tool_output(tool_results, e.output) ELSE tool_results
    /\ events' = events \o stream_yields(e)
    /\ sse' = sse \o generate_stream_records(stream_yields(e), selected_text)
    /\ UNCHANGED <<endpoint, selected_text, api_key_set, pc, tools, agent_state,
                   agent_result, response, called>>
    /\ UNCHANGED others

\* The event loop ends without an exception: final_output is read.
StreamRunEnds(final_output) ==
    /\ endpoint = "stream"
    /\ pc = "running"
    /\ agent_result' = [answer |-> Val(final_output), tool_results |-> tool_results,
                        error |-> Null]
    /\ pc' = "post"
    /\ UNCHANGED <<endpoint, selected_text, api_key_set, tools, sdk, tool_results,
                   full_answer, events, sse, agent_state, response, called>>
    /\ UNCHANGED others

HasSources == tool_results # <<>> \/ Truthy(selected_text)

\* The data of the sources event with a later duplicate of a pair replacing
\* the citation already made for it.
stream_sources_last_wins(results, sel) ==
    IF results # <<>>
    THEN extract_last_wins(results)
    ELSE <<create_selected_text_citation(sel.v, "Answer derived from provided selection")>>

\* run_agent_streamed: the data of the sources event.
\* if tool_results: citations = extract_and_validate_citations(...)
\* elif selected_text: citation = create_selected_text_citation(...)
stream_sources(results, sel) ==
    IF results # <<>>
    THEN extract_and_validate_citations(results)
    ELSE <<create_selected_text_citation(sel.v, "Answer derived from provided selection")>>

\* if tool_results: yield sources (citations) elif selected_text: yield
\* sources (the selection's citation).
StreamSources ==
    /\ endpoint = "stream"
    /\ pc = "post"
    /\ HasSources
    /\ LET ev == [type |-> "sources", data |-> stream_sources(tool_results, selected_text)]
       IN /\ events' = Append(events, ev)
          /\ sse' = sse \o generate_stream_record(ev, selected_text)
    /\ pc' = "post_sources"
    /\ UNCHANGED <<endpoint, selected_text, api_key_set, tools, sdk, tool_results,
                   full_answer, agent_state, agent_result, response, called>>
    /\ UNCHANGED others

\* yield done; the generator returns.
StreamDone ==
    /\ endpoint = "stream"
    /\ pc = "post_sources" \/ (pc = "post" /\ ~ HasSources)
    /\ LET ev == [type |-> "done",
                  answer |-> IF agent_result.answer.v # <<>>
                             THEN agent_result.answer.v ELSE full_answer,
                  tool_results |-> tool_results]
       IN /\ events' = Append(events, ev)
          /\ sse' = sse \o generate_stream_record(ev, selected_text)
    /\ pc' = "done"
    /\ agent_state' = "returned"
    /\ UNCHANGED <<endpoint, selected_text, api_key_set, tools, sdk, tool_results,
                   full_answer, agent_result, response, called>>
    /\ UNCHANGED others

\* The run raises inside the try statement of run_agent_streamed:
\* except Exception yields the error event and the generator returns.
StreamFails(message) ==
    /\ endpoint = "stream"
    /\ pc = "running"
    /\ LET ev == [type |-> "error", message |-> message]
       IN /\ events' = Append(events, ev)
          /\ sse' = sse \o generate_stream_record(ev, selected_text)
    /\ pc' = "done"
    /\ agent_state' = "returned"
    /\ UNCHANGED <<endpoint, selected_text, api_key_set, tools, sdk, tool_results,
                   full_answer, agent_result, response, called>>
    /\ UNCHANGED others

\* The client goes away while the stream is open: the generators are closed
\* and yield nothing more.
StreamClosed ==
    /\ endpoint = "stream"
    /\ pc \in {"running", "post", "post_sources"}
    /\ pc' = "closed"
    /\ agent_state' = "closed"
    /\ UNCHANGED <<endpoint, selected_text, api_key_set, tools, sdk, tool_results,
                   full_answer, events, sse, agent_result, response, called>>
    /\ UNCHANGED others

NextAgent ==
    \/ BuildAgent
    \/ BuildAgentFails
    \/ \E e \in SdkEvents(tools) : RunnerEvent(e)
    \/ \E f \in FinalOutputs : RunAgentReturns(f)
    \/ \E m \in ErrorMessages : RunAgentFails(m)
    \/ ChatRespond
    \/ \E e \in SdkEvents(tools) : StreamEvent(e)
    \/ \E f \in FinalOutputs : StreamRunEnds(f)
    \/ StreamSources
    \/ StreamDone
    \/ \E m \in ErrorMessages : StreamFails(m)
    \/ StreamClosed

SpecAgent == InitAgent /\ [][NextAgent]_vars

EventTypes(evs) == [i \in 1..Len(evs) |-> evs[i].type]
RecordTags(recs) == [i \in 1..Len(recs) |-> recs[i].tag]

IsTerminal(t) == t \in {"done", "error"}

\* Number of terminal entries of a sequence of event types.
Terminals(ts) == Cardinality({i \in 1..Len(ts) : IsTerminal(ts[i])})

\* The sequence ends in its only terminal entry.
EndsInOneTerminal(ts) ==
    /\ ts # <<>>
    /\ IsTerminal(ts[Len(ts)])
    /\ Terminals(ts) = 1

\* C3: every run of run_agent_streamed that has ended (it returned or it
\* raised), whatever the outcome of building the agent, of the model call and
\* of the tool calls, has yielded a sequence that ends in exactly one terminal
\* event, done or error, with nothing after it.
C3_OneTerminalEvent ==
    (endpoint = "stream" /\ agent_state \in {"returned", "raised"}) =>
        EndsInOneTerminal(EventTypes(events))

\* Entries of the kinds delta / tool_call come first, then at most one
\* sources entry, then at most one terminal entry, which is the last one.
Ordered(ts) ==
    \A i \in 1..Len(ts) : \A j \in 1..Len(ts) :
        (i < j) =>
            /\ ~ IsTerminal(ts[i])
            /\ (ts[i] = "sources" => IsTerminal(ts[j]))

\* C4: within one streaming request the events run_agent_streamed yields and
\* the records generate_stream writes are ordered: delta / tool_call entries,
\* then at most one sources entry, then the terminal entry; nothing follows
\* a sources entry but the terminal entry, sources is never emitted twice,
\* and a stream that was written to its end holds exactly one terminal record.
C4_StreamOrder ==
    endpoint = "stream" =>
        /\ Ordered(EventTypes(events))
        /\ Ordered(RecordTags(sse))
        /\ (pc = "done" => EndsInOneTerminal(RecordTags(sse)))
        /\ (agent_state = "returned" => EndsInOneTerminal(EventTypes(events)))
        /\ (pc # "done" => Terminals(RecordTags(sse)) = 0)

C4_Witness ==
    /\ endpoint = "stream"
    /\ pc = "done"
    /\ EventTypes(events) = <<"delta", "tool_call", "delta", "sources", "done">>
    /\ RecordTags(sse) = <<"delta", "delta", "sources", "done">>

\* The tool outputs of the run that carry at least one result.
ReturnedResults ==
    { r \in ResultDomain :
        \E i \in 1..Len(sdk) :
            /\ sdk[i].what = "tool_call_output_item"
            /\ sdk[i].output.json
            /\ \E k \in 1..Len(sdk[i].output.results) : sdk[i].output.results[k] = r }

\* C7: a /chat request without selected_text in which the retrieval tool
\* returned at least one result and generation then failed (run_agent reports
\* an error message) is answered with mode retrieval_only, the retrieved
\* content as sources and a fallback message.
C7_RetrievalOnlyAfterFailure ==
    ( /\ endpoint = "chat"
      /\ pc = "done"
      /\ ~ Truthy(selected_text)
      /\ ReturnedResults # {}
      /\ agent_state = "returned"
      /\ Truthy(agent_result.error) ) =>
        /\ response.status = 200
        /\ response.metadata.mode = "retrieval_only"
        /\ response.sources # <<>>
        /\ ~ response.fallback_message.null

\* C8: for every /chat request with selected_text the agent is built without
\* the retrieval tool, no tool output occurs, and the ChatResponse, whether
\* generation failed or not, has retrieval_count = 0, mode = selected_text and
\* exactly one source, a SelectedTextCitation; determine_confidence is not
\* called.
C8_SelectedTextIsolation ==
    (endpoint = "chat" /\ Truthy(selected_text)) =>
        /\ "search_book_content" \notin tools
        /\ ReturnedResults = {}
        /\ \A i \in 1..Len(sdk) : sdk[i].what # "tool_call_output_item"
        /\ (pc = "done" /\ agent_state = "returned") =>
              /\ response.status = 200
              /\ response.metadata.retrieval_count = 0
              /\ response.metadata.mode = "selected_text"
              /\ Len(response.sources) = 1
              /\ response.sources[1].kind = "SelectedTextCitation"
              /\ response.sources[1].selection_length = TLen(selected_text.v)
              /\ "determine_confidence" \notin called

C8_Witness ==
    /\ endpoint = "chat"
    /\ Truthy(selected_text)
    /\ pc = "done"
    /\ response.status = 200
    /\ Truthy(agent_result.error)
    /\ Len(sdk) = 3

\* The SourceCitations of a list of citations come from results returned in
\* this run.
FromReturned(cites) ==
    \A i \in 1..Len(cites) :
        cites[i].kind = "SourceCitation" =>
            \E r \in ReturnedResults :
                <<cites[i].source_url, cites[i].chunk_position>> = CiteKey(r)

\* C9: in every /chat response and in every sources event and record of a
\* stream, each SourceCitation's (source_url, chunk_position) is the pair of a
\* result some tool output of this request returned; when no tool output
\* returned a result there is no SourceCitation.
C9_CitationsFromToolResults ==
    /\ (response.status = 200 => FromReturned(response.sources))
    /\ \A i \in 1..Len(events) :
          events[i].type = "sources" => FromReturned(events[i].data)
    /\ \A i \in 1..Len(sse) :
          sse[i].tag = "sources" => FromReturned(sse[i].sources)

C9_Witness ==
    /\ endpoint = "chat"
    /\ response.status = 200
    /\ Len(agent_result.tool_results) = 4
    /\ Len(response.sources) = 2
    /\ response.sources[1].kind = "SourceCitation"

(***************************************************************************)
(* The citation and fallback layer, one function call at a time: agent.py  *)
(***************************************************************************)
\* Largest number of runs of a text given to the snippet code.
MaxRuns == 3

\* Characters and run lengths of the texts: a letter, a blank and a full
\* stop, in runs around the 200-character cut.
TextChars   == {"a", " ", "."}
RunLengths  == {1, 3, 197, 198, 200, 201}

RECURSIVE TextsOfRuns(_)
\* The texts of exactly n runs in which adjacent runs differ in character.
TextsOfRuns(n) ==
    IF n = 0 THEN {<<>>}
    ELSE { Append(p[1], p[2]) :
             p \in { q \in TextsOfRuns(n - 1) \X {Run(c, k) : c \in TextChars, k \in RunLengths} :
                       q[1] = <<>> \/ q[1][Len(q[1])].c # q[2].c } }

\* The texts of at most n runs.
Texts(n) == UNION { TextsOfRuns(k) : k \in 0..n }

\* chunk_text of a retrieval hit: any text, the empty one included.
ChunkTexts(n) == Texts(n)

\* selected_text as ChatRequest's validator leaves it: stripped, not empty.
SelectionTexts(n) == { t \in Texts(n) : t # <<>> /\ TStrip(t) = t }

\* similarity scores, in hundredths, on and around the two thresholds.
Scores == {0, 29, 30, 49, 50, 100}

ScoredHit(score) == ToolResult("/docs/m1", 0, "Kinematics", "Module 1", score, ShortText)

Sections == {"Kinematics", "Control", "Sensors", "Dynamics"}

SectionHit(section) == ToolResult("/docs/m1", 0, section, "Module 1", 62, ShortText)

\* error of get_fallback_answer: None, the empty string, a message.
FallbackErrors == {Null, Val(<<>>), Val(<<"error">>)}

Call(fn, text, results, error) ==
    [fn |-> fn, text |-> text, results |-> results, error |-> error]

\* The call made: one function of the layer and its arguments.
LayerCall(c) ==
    \/ \E t \in ChunkTexts(MaxRuns) :
          c = Call("extract_and_validate_citations", <<>>,
                   <<ToolResult("/docs/m1", 0, "Kinematics", "Module 1", 62, t)>>, Null)
    \/ \E t \in SelectionTexts(MaxRuns) :
          c = Call("create_selected_text_citation", t, <<>>, Null)
    \/ \E r \in SeqsUpTo({ScoredHit(x) : x \in Scores}, MaxResults) :
          c = Call("determine_confidence", <<>>, r, Null)
    \/ \E r \in SeqsUpTo({SectionHit(x) : x \in Sections}, MaxResults), e \in FallbackErrors :
          c = Call("get_fallback_answer", <<>>, r, e)

InitLayer ==
    /\ InitAdmission
    /\ InitRetryIdle
    /\ InitCiteIdle
    /\ InitAgentIdle
    /\ InitSearchIdle
    /\ InitChatIdle
    /\ InitChunkIdle
    /\ InitIngestIdle
    /\ LayerCall(call)
    /\ ret = Null

layerOthers == <<admVars, retryVars, citeVars, agentVars, searchVars, chatVars,
                 chunkVars, ingestVars>>

\* extract_and_validate_citations(answer, [result])
CallExtract ==
    /\ call.fn = "extract_and_validate_citations"
    /\ ret = Null
    /\ ret' = Val(extract_and_validate_citations(call.results))
    /\ UNCHANGED <<call, layerOthers>>

\* create_selected_text_citation(selected_text, "Answer derived from ...")
CallSelectedCitation ==
    /\ call.fn = "create_selected_text_citation"
    /\ ret = Null
    /\ ret' = Val(create_selected_text_citation(
                     call.text, "Answer derived from provided selection"))
    /\ UNCHANGED <<call, layerOthers>>

\* determine_confidence(tool_results)
CallConfidence ==
    /\ call.fn = "determine_confidence"
    /\ ret = Null
    /\ ret' = Val(determine_confidence(call.results))
    /\ UNCHANGED <<call, layerOthers>>

\* get_fallback_answer(tool_results, error)
CallFallback ==
    /\ call.fn = "get_fallback_answer"
    /\ ret = Null
    /\ ret' = Val(get_fallback_answer(call.results, call.error))
    /\ UNCHANGED <<call, layerOthers>>

NextLayer ==
    \/ CallExtract
    \/ CallSelectedCitation
    \/ CallConfidence
    \/ CallFallback

SpecLayer == InitLayer /\ [][NextLayer]_vars

\* The text ends with "...".
EndsWithEllipsis(t) == t # <<>> /\ t[Len(t)].c = "." /\ t[Len(t)].n >= 3

\* The source text of the snippet of the call, and the snippet returned.
SnippetSource ==
    IF call.fn = "create_selected_text_citation"
    THEN call.text ELSE call.results[1].chunk_text

SnippetReturned ==
    IF call.fn = "create_selected_text_citation"
    THEN ret.v.snippet ELSE ret.v[1].snippet

\* C11: for every chunk text and every selected text the snippet of the
\* citation built from it is at most 200 characters long, and when the text
\* is longer than 200 characters the snippet ends with "...".
C11_SnippetBounded ==
    ( /\ call.fn \in {"extract_and_validate_citations", "create_selected_text_citation"}
      /\ ~ ret.null ) =>
        /\ TLen(SnippetReturned) <= 200
        /\ (TLen(SnippetSource) > 200 => EndsWithEllipsis(SnippetReturned))

\* The similarity scores of a list of results.
ScoresOf(results) == {results[i].similarity_score : i \in 1..Len(results)}

StreamCitations ==
    LET idx == {i \in 1..Len(events) : events[i].type = "sources"} IN
    IF idx = {} THEN <<>> ELSE events[CHOOSE i \in idx : TRUE].data

\* The same for the records written to the client.
StreamRecordCitations ==
    LET idx == {i \in 1..Len(sse) : sse[i].tag = "sources"} IN
    IF idx = {} THEN <<>> ELSE sse[CHOOSE i \in idx : TRUE].sources

LastEvent == events[Len(events)]

\* What run_agent returns for a run with the outcome of this stream: the final
\* output and the captured tool results of a completed run, the error dict of
\* a failed one.
RunAgentCounterpart ==
    IF LastEvent.type = "done"
    THEN [answer |-> agent_result.answer, tool_results |-> tool_results, error |-> Null]
    ELSE [answer |-> Null, tool_results |-> <<>>, error |-> Val(LastEvent.message)]

ChatSourcesCounterpart == chat_response(selected_text, RunAgentCounterpart).sources

StreamEnded ==
    endpoint = "stream" /\ pc = "done" /\ agent_state = "returned" /\ events # <<>>

C14_RunAgentNeverRaises ==
    endpoint = "chat" =>
        /\ agent_state # "raised"
        /\ (agent_state = "returned" =>
               (agent_result.answer.null <=> ~ agent_result.error.null))
        /\ (pc = "done" => response.status = 200)

(***************************************************************************)
(* The retrieval tool and the search function: agent.py, retrieve.py       *)
(***************************************************************************)
MAX_QUERY_CHARACTERS  == 32000
MAX_RETRIEVAL_RESULTS == 10

\* Queries: empty, blank, short, padded with blanks, of exactly the maximum
\* length, longer than the maximum, longer only by its trailing blanks, and
\* longer with a leading blank.
Queries ==
    { <<>>,
      <<Run(" ", 3)>>,
      <<Run("q", 20)>>,
      <<Run(" ", 2), Run("q", 20), Run(" ", 1)>>,
      <<Run("q", 32000)>>,
      <<Run("q", 32001)>>,
      <<Run("q", 32000), Run(" ", 5)>>,
      <<Run(" ", 1), Run("q", 32005)>> }

Limits     == {0, 1, 20, 21}
\* score_threshold in hundredths
Thresholds == {0 - 1, 0, 100, 101}

\* A stored point whose payload has no title.
HitUntitled == ToolResult("/docs/m3", 2, "Sensors", "", 55, ShortText)

\* query_response.points of a successful index query: no point, one, two,
\* as many as the tool may ask for, and one more.
PointLists ==
    {<<>>, <<Hit1>>, <<HitUntitled>>, <<Hit4, HitUntitled>>,
     [i \in 1..MAX_RETRIEVAL_RESULTS |-> Hit1],
     [i \in 1..(MAX_RETRIEVAL_RESULTS + 1) |-> Hit1]}

\* What one call of client.embed can do.
EmbedOutcomes ==
    { [kind |-> "ok", value |-> "embedding"],
      Exc("asyncio.TimeoutError", {}),
      Exc("Exception", {"connection"}),
      Exc("ValueError", {"400"}) }

\* What one call of client.query_points can do.
QueryOutcomes ==
    { [kind |-> "ok", value |-> p] : p \in PointLists } \cup
    { Exc("asyncio.TimeoutError", {}), Exc("Exception", {"503"}) }

SearchArgs(via, q, limit, threshold) ==
    [via |-> via, query |-> q, limit |-> limit, score_threshold |-> threshold]

\* The filters of a chat request or of a call: source_url_prefix, section.
Filters(prefix, section) == [source_url_prefix |-> prefix, section |-> section]

NoFilters == Filters(Null, Null)

\* filters of ChatRequest: none, a prefix, a prefix and a section.
RequestFilters ==
    {NoFilters, Filters(Val("/docs/m1"), Null), Filters(Val("/docs/m1"), Val("Kinematics"))}

\* source_url_prefix and section in the arguments of a call: left out, or
\* given.
CallFilters == {NoFilters, Filters(Val("/docs/m3"), Val("Sensors"))}

\* The arguments of a call with its filter arguments, and the filters of the
\* chat request the call is made for.
WithFilters(args, given, requested) ==
    [via |-> args.via, query |-> args.query, limit |-> args.limit,
     score_threshold |-> args.score_threshold,
     source_url_prefix |-> given.source_url_prefix, section |-> given.section,
     request_filters |-> requested]

\* A call of search_book_content by the agent ("tool"), or of search by
\* another caller ("direct").
InitSearch ==
    /\ InitAdmission
    /\ InitRetryIdle
    /\ InitCiteIdle
    /\ InitAgentIdle
    /\ InitChatIdle
    /\ InitChunkIdle
    /\ InitIngestIdle
    /\ call = NoCall
    /\ ret = Null
    /\ \E v \in {"tool", "direct"}, q \in Queries, l \in Limits, t \in Thresholds,
          given \in CallFilters :
          \E requested \in (IF v = "tool" THEN RequestFilters ELSE {given}) :
              search_args = WithFilters(SearchArgs(v, q, l, t), given, requested)
    /\ search_pc = IF search_args.via = "tool" THEN "tool_entry" ELSE "search_entry"
    /\ query_text = <<>>
    /\ warnings = <<>>
    /\ external_calls = <<>>
    /\ search_result = NoResult
    /\ tool_payload = Null

searchOthers == <<admVars, citeVars, agentVars, call, ret, chatVars, chunkVars, ingestVars>>

\* Entry of _retry_with_backoff for a new operation.
EnterRetry ==
    /\ attempt' = 0
    /\ delay' = BASE_DELAY_SECONDS
    /\ last_exception' = NoException
    /\ retry_pc' = "call"
    /\ attempt_log' = <<>>
    /\ sleeps' = <<>>
    /\ retry_result' = NoResult

Raise(cls, message) == [kind |-> "raise", exc |-> Exc(cls, {}), message |-> message]

\* search_book_content passing limit and score_threshold on as given.
clamp_tool_args_identity(args) == args

\* search_book_content: limit = max(1, min(limit, MAX_RETRIEVAL_RESULTS));
\* score_threshold = max(0.0, min(score_threshold, 1.0))
clamp_tool_args(args) ==
    [args EXCEPT !.limit = Max2(1, Min2(@, MAX_RETRIEVAL_RESULTS)),
                 !.score_threshold = Max2(0, Min2(@, 100))]

\* search_book_content: the parameters are clamped, then search(query,
\* limit, score_threshold, source_url_prefix, section) is called.
ToolClamp ==
    /\ search_pc = "tool_entry"
    /\ search_args' = clamp_tool_args(search_args)
    /\ search_pc' = "search_entry"
    /\ UNCHANGED <<query_text, warnings, external_calls, search_result, tool_payload>>
    /\ UNCHANGED <<retryVars, searchOthers>>

\* The validation with the limit capped at 10 instead of 20.
validate_search_limit10(args) ==
    IF TStrip(args.query) = <<>>
    THEN Raise("ValueError", "Query text cannot be empty or whitespace")
    ELSE IF ~ (1 <= args.limit /\ args.limit <= 10)
    THEN Raise("ValueError", "Limit must be between 1 and 20")
    ELSE IF ~ (0 <= args.score_threshold /\ args.score_threshold <= 100)
    THEN Raise("ValueError", "Score threshold must be between 0.0 and 1.0")
    ELSE NoResult

\* search: the validation of query_text, limit and score_threshold; the
\* ValueError it raises, or NoResult when the input passes.
validate_search(args) ==
    IF TStrip(args.query) = <<>>
    THEN Raise("ValueError", "Query text cannot be empty or whitespace")
    ELSE IF ~ (1 <= args.limit /\ args.limit <= 20)
    THEN Raise("ValueError", "Limit must be between 1 and 20")
    ELSE IF ~ (0 <= args.score_threshold /\ args.score_threshold <= 100)
    THEN Raise("ValueError", "Score threshold must be between 0.0 and 1.0")
    ELSE NoResult

\* search: the validation raises ValueError.
SearchRejects ==
    /\ search_pc = "search_entry"
    /\ validate_search(search_args) # NoResult
    /\ search_result' = validate_search(search_args)
    /\ search_pc' = "search_raised"
    /\ UNCHANGED <<search_args, query_text, warnings, external_calls, tool_payload>>
    /\ UNCHANGED <<retryVars, searchOthers>>

\* search: the input is valid; query_text is stripped, truncated with a
\* warning if it is too long, and _generate_query_embedding is entered.
SearchAccepts ==
    /\ search_pc = "search_entry"
    /\ validate_search(search_args) = NoResult
    /\ LET stripped == TStrip(search_args.query) IN
         IF TLen(stripped) > MAX_QUERY_CHARACTERS
         THEN /\ query_text' = TTake(stripped, MAX_QUERY_CHARACTERS)
              /\ warnings' = Append(warnings, "Query truncated")
         ELSE /\ query_text' = stripped
              /\ UNCHANGED warnings
    /\ search_pc' = "embedding"
    /\ EnterRetry
    /\ UNCHANGED <<search_args, external_calls, search_result, tool_payload>>
    /\ UNCHANGED searchOthers

\* _get_cohere_client / _get_qdrant_client raises EnvironmentError (a
\* variable of the environment is missing) before the operation is tried.
ClientMissing ==
    /\ search_pc \in {"embedding", "searching"}
    /\ retry_pc = "call"
    /\ attempt_log = <<>>
    /\ search_result' = Raise("EnvironmentError", "Missing required environment variable")
    /\ search_pc' = "search_raised"
    /\ retry_pc' = "idle"
    /\ UNCHANGED <<attempt, delay, last_exception, attempt_log, sleeps, retry_result>>
    /\ UNCHANGED <<search_args, query_text, warnings, external_calls, tool_payload>>
    /\ UNCHANGED searchOthers

\* One attempt of client.embed inside _retry_with_backoff.
EmbedAttempt(o) ==
    /\ search_pc = "embedding"
    /\ RetryCall(o)

\* _build_filter(source_url_filter, section_filter): the conditions of
\* Filter(must=...), or None without a condition.
build_filter(source_url_filter, section_filter) ==
    LET conditions ==
          (IF (~ source_url_filter.null) /\ source_url_filter.v # ""
           THEN <<[key |-> "source_url", match |-> "MatchText", value |-> source_url_filter.v]>>
           ELSE <<>>) \o
          (IF (~ section_filter.null) /\ section_filter.v # ""
           THEN <<[key |-> "section", match |-> "MatchValue", value |-> section_filter.v]>>
           ELSE <<>>)
    IN  IF conditions # <<>> THEN Val(conditions) ELSE Null

\* The index answers query_points(limit, score_threshold, query_filter) with
\* at most limit points, each of a score of at least score_threshold and
\* meeting every condition of the filter (the urls of the model are whole
\* paths: a url matches the text it equals).
IndexAnswers(points, args) ==
    LET filter == build_filter(args.source_url_prefix, args.section) IN
    /\ Len(points) <= args.limit
    /\ \A i \in 1..Len(points) :
          /\ points[i].similarity_score >= args.score_threshold
          /\ IF filter.null THEN TRUE
             ELSE \A k \in 1..Len(filter.v) :
                     IF filter.v[k].key = "section"
                     THEN points[i].section = filter.v[k].value
                     ELSE points[i].source_url = filter.v[k].value

\* One attempt of client.query_points inside _retry_with_backoff.
QueryAttempt(o) ==
    /\ search_pc = "searching"
    /\ o.kind = "ok" => IndexAnswers(o.value, search_args)
    /\ RetryCall(o)

\* The embedding or index operation as search records it once
\* _retry_with_backoff has ended.
ExternalCall(op) ==
    [op |-> op, attempts |-> Len(attempt_log), length |-> TLen(query_text),
     limit |-> search_args.limit, score_threshold |-> search_args.score_threshold,
     filter |-> build_filter(search_args.source_url_prefix, search_args.section)]

RetryEnded == retry_pc \in {"returned", "raised", "raised_exhausted"}

\* search going on to _search_qdrant whatever _generate_query_embedding did.
EmbedDone_unchecked ==
    /\ search_pc = "embedding"
    /\ RetryEnded
    /\ external_calls' = Append(external_calls, ExternalCall("embed"))
    /\ search_pc' = "searching"
    /\ EnterRetry
    /\ UNCHANGED search_result
    /\ UNCHANGED <<search_args, query_text, warnings, tool_payload>>
    /\ UNCHANGED searchOthers

\* _generate_query_embedding returns the vector, or raises what
\* _retry_with_backoff raised; on success _search_qdrant is entered.
EmbedDone ==
    /\ search_pc = "embedding"
    /\ RetryEnded
    /\ external_calls' = Append(external_calls, ExternalCall("embed"))
    /\ IF retry_result.kind = "return"
       THEN /\ search_pc' = "searching"
            /\ EnterRetry
            /\ UNCHANGED search_result
       ELSE /\ search_result' = [kind |-> "raise", exc |-> retry_result.exc,
                                 message |-> "embedding failed"]
            /\ search_pc' = "search_raised"
            /\ UNCHANGED retryVars
    /\ UNCHANGED <<search_args, query_text, warnings, tool_payload>>
    /\ UNCHANGED searchOthers

RECURSIVE missing_field_warnings(_)
\* search: one warning for every result without source_url, title or
\* chunk_text.
missing_field_warnings(results) ==
    IF results = <<>> THEN <<>>
    ELSE LET r == Head(results) IN
         (IF r.source_url = "" \/ r.title = "" \/ r.chunk_text = <<>>
          THEN <<"Result missing fields">> ELSE <<>>)
         \o missing_field_warnings(Tail(results))

\* _search_qdrant returns the mapped points and search returns its
\* SearchResponse, or search raises what _retry_with_backoff raised.
QueryDone ==
    /\ search_pc = "searching"
    /\ RetryEnded
    /\ external_calls' = Append(external_calls, ExternalCall("query_points"))
    /\ IF retry_result.kind = "return"
       THEN /\ warnings' = warnings \o missing_field_warnings(retry_result.value)
            /\ search_result' = [kind |-> "return",
                                 results |-> retry_result.value,
                                 total_results |-> Len(retry_result.value),
                                 warnings |-> warnings']
            /\ search_pc' = "search_returned"
       ELSE /\ search_result' = [kind |-> "raise", exc |-> retry_result.exc,
                                 message |-> "search failed"]
            /\ search_pc' = "search_raised"
            /\ UNCHANGED warnings
    /\ UNCHANGED <<search_args, query_text, tool_payload>>
    /\ UNCHANGED <<retryVars, searchOthers>>

\* search_book_content with an except clause for ConnectionError and
\* TimeoutError only.
search_book_content_returns_narrow(result) ==
    IF result.kind = "return"
    THEN [kind |-> "return",
          payload |-> [results |-> result.results, total_results |-> result.total_results,
                       error |-> Null,
                       message |-> IF result.results # <<>>
                                   THEN "Found relevant passages"
                                   ELSE "No relevant passages found"]]
    ELSE IF result.exc.cls \in {"ConnectionError", "TimeoutError"}
    THEN [kind |-> "return",
          payload |-> [results |-> <<>>, total_results |-> 0,
                       error |-> Val(result.exc.cls), message |-> "Search failed"]]
    ELSE [kind |-> "raise", exc |-> result.exc]

\* search_book_content: the try statement around search(...) and the
\* conversion of its results; except Exception returns the error payload.
search_book_content_returns(result) ==
    IF result.kind = "return"
    THEN [kind |-> "return",
          payload |-> [results |-> result.results, total_results |-> result.total_results,
                       error |-> Null,
                       message |-> IF result.results # <<>>
                                   THEN "Found relevant passages"
                                   ELSE "No relevant passages found"]]
    ELSE [kind |-> "return",
          payload |-> [results |-> <<>>, total_results |-> 0,
                       error |-> Val(result.exc.cls), message |-> "Search failed"]]

\* search_book_content ends.
ToolReturn ==
    /\ search_args.via = "tool"
    /\ search_pc \in {"search_returned", "search_raised"}
    /\ LET out == search_book_content_returns(search_result) IN
         IF out.kind = "return"
         THEN /\ tool_payload' = Val(out.payload)
              /\ search_pc' = "tool_returned"
         ELSE /\ UNCHANGED tool_payload
              /\ search_pc' = "tool_raised"
    /\ UNCHANGED <<search_args, query_text, warnings, external_calls, search_result>>
    /\ UNCHANGED <<retryVars, searchOthers>>

NextSearch ==
    \/ ToolClamp
    \/ SearchRejects
    \/ SearchAccepts
    \/ ClientMissing
    \/ \E o \in EmbedOutcomes : EmbedAttempt(o)
    \/ \E o \in QueryOutcomes : QueryAttempt(o)
    \/ RetrySleep
    \/ RetryExhausted
    \/ EmbedDone
    \/ QueryDone
    \/ ToolReturn

SpecSearch == InitSearch /\ [][NextSearch]_vars

\* C15: search_book_content never raises: whatever search did (results, a
\* ValueError for the query or a parameter, TimeoutError, ConnectionError,
\* any other exception) the next step of the tool is to return a payload;
\* after a failure the payload has results = [], total_results = 0 and an
\* error field, after a success it carries the results of search.
C15_ToolNeverRaises ==
    /\ [](search_args.via = "tool" =>
            /\ search_pc # "tool_raised"
            /\ (search_pc = "tool_returned" =>
                  /\ ~ tool_payload.null
                  /\ (search_result.kind = "return" =>
                        /\ tool_payload.v.results = search_result.results
                        /\ tool_payload.v.total_results = Len(search_result.results)
                        /\ tool_payload.v.error.null)
                  /\ (search_result.kind = "raise" =>
                        /\ tool_payload.v.results = <<>>
                        /\ tool_payload.v.total_results = 0
                        /\ ~ tool_payload.v.error.null)))
    /\ [][ (search_args.via = "tool" /\ search_pc \in {"search_returned", "search_raised"})
             => (search_pc' = "tool_returned" /\ ~ tool_payload'.null) ]_vars

C15_Witness ==
    /\ search_args.via = "tool"
    /\ search_pc = "tool_returned"
    /\ search_result.kind = "raise"
    /\ search_result.exc.cls = "ConnectionError"
    /\ Len(external_calls) = 2

\* The calls of search that have passed its validation step.
Validated == search_pc \notin {"idle", "tool_entry", "search_entry"}

EmptyQuery   == TStrip(search_args.query) = <<>>
BadLimit     == ~ (1 <= search_args.limit /\ search_args.limit <= 20)
BadThreshold == ~ (0 <= search_args.score_threshold /\ search_args.score_threshold <= 100)

ValidationMessages ==
    {"Query text cannot be empty or whitespace", "Limit must be between 1 and 20",
     "Score threshold must be between 0.0 and 1.0"}

RejectedByValidation ==
    /\ search_result.kind = "raise"
    /\ search_result.exc.cls = "ValueError"
    /\ search_result.message \in ValidationMessages

TruncationWarnings(ws) == Cardinality({i \in 1..Len(ws) : ws[i] = "Query truncated"})

\* The rejection part of C16: a query that is empty after trimming fails with
\* the empty-query ValueError, else a limit outside [1,20] or a threshold
\* outside [0.0,1.0] fails with a parameter ValueError; a rejected call has
\* made no embedding call, no index call and no retry; nothing else is
\* rejected.
RejectsBeforeAnyCall ==
    /\ EmptyQuery =>
          search_result = Raise("ValueError", "Query text cannot be empty or whitespace")
    /\ (~ EmptyQuery /\ (BadLimit \/ BadThreshold)) =>
          /\ RejectedByValidation
          /\ search_result.message \in {"Limit must be between 1 and 20",
                                        "Score threshold must be between 0.0 and 1.0"}
    /\ (EmptyQuery \/ BadLimit \/ BadThreshold) =>
          /\ external_calls = <<>>
          /\ attempt_log = <<>>
          /\ sleeps = <<>>
          /\ retry_pc = "idle"
    /\ (~ EmptyQuery /\ ~ BadLimit /\ ~ BadThreshold) => ~ RejectedByValidation

\* The query search works with and the warnings it reports, given whether
\* the query counts as too long.
TruncatesWhen(too_long) ==
    (~ EmptyQuery /\ ~ BadLimit /\ ~ BadThreshold) =>
        /\ IF too_long
           THEN /\ TLen(query_text) = 32000
                /\ query_text = TTake(TStrip(search_args.query), 32000)
                /\ TruncationWarnings(warnings) = 1
           ELSE /\ query_text = TStrip(search_args.query)
                /\ TruncationWarnings(warnings) = 0
        /\ (search_result.kind = "return" => search_result.warnings = warnings)
        /\ \A i \in 1..Len(external_calls) : external_calls[i].length = TLen(query_text)

\* C16: search rejects out-of-contract input before any embedding or index
\* call and without retry, and a query longer than 32,000 characters is not
\* rejected but truncated to 32,000 characters with one truncation warning.
C16_SearchValidation ==
    Validated =>
        /\ RejectsBeforeAnyCall
        /\ TruncatesWhen(TLen(search_args.query) > 32000)

\* C16, amended: the length that decides the truncation is the length of the
\* query after trimming.
C16_SearchValidationTrimmed ==
    Validated =>
        /\ RejectsBeforeAnyCall
        /\ TruncatesWhen(TLen(TStrip(search_args.query)) > 32000)

C16_Witness ==
    /\ search_pc = "search_returned"
    /\ TLen(search_args.query) = 32006
    /\ TLen(query_text) = 32000
    /\ search_result.warnings = <<"Query truncated", "Result missing fields">>

\* C17: every 200 response of /chat carries an answer that is not None or a
\* fallback_message that is not None.
C17_AnswerOrFallback ==
    (endpoint = "chat" /\ response.status = 200) =>
        (~ response.answer.null \/ ~ response.fallback_message.null)

\* The section labels of a list of results.
SectionsOf(results) == {results[i].section : i \in 1..Len(results)}

\* C18: get_fallback_answer returns, with an error (a non-empty message) and
\* results, the message that names sections: at least one and at most three
\* distinct labels, all of them labels of the results; with an error and no
\* results the unable-to-search message; with no error and no results the
\* outside-scope message with the topic list; with no error and results, None.
C18_FallbackAnswer ==
    (call.fn = "get_fallback_answer" /\ ~ ret.null) =>
        LET out    == ret.v
            hasErr == Truthy(call.error)
            rs     == call.results
        IN
        /\ (hasErr /\ rs # <<>>) =>
              /\ ~ out.null
              /\ out.v.text = "found_sections_no_detailed_response"
              /\ out.v.sections # {}
              /\ Cardinality(out.v.sections) <= 3
              /\ out.v.sections \subseteq SectionsOf(rs)
        /\ (hasErr /\ rs = <<>>) =>
              out = Val([text |-> "unable_to_search", sections |-> {}])
        /\ (~ hasErr /\ rs = <<>>) =>
              out = Val([text |-> "outside_scope_with_topics", sections |-> {}])
        /\ (~ hasErr /\ rs # <<>>) => out.null

C18_Witness ==
    /\ call.fn = "get_fallback_answer"
    /\ ~ ret.null
    /\ Truthy(call.error)
    /\ Cardinality(SectionsOf(call.results)) = 4
    /\ Cardinality(ret.v.v.sections) = 3

(***************************************************************************)
(* Requests and the session store: app.py, auth.py, db.py                  *)
(***************************************************************************)
\* The requests of one run; all name the session s1.  Session s2 belongs to
\* an earlier client.
ChatRequests == {"r1", "r2"}

RECENT_CONTEXT_LIMIT == 5

\* A row of table sessions.
SessionRow(sid, created, active) ==
    [session_id |-> sid, created_at |-> created, last_active |-> active]

\* SELECT ... FROM sessions WHERE session_id = :session_id
SessionRows(sid) == { row \in db_sessions : row.session_id = sid }

\* A row of table conversations.
ConversationRow(id, sid, timestamp, query, answer, sources, mode) ==
    [id |-> id, session_id |-> sid, timestamp |-> timestamp, query |-> query,
     response |-> answer, sources |-> sources, mode |-> mode]

\* The exchanges stored before the run: one of s2, two of s1.
OldRow  == ConversationRow(1, "s2", 0, "earlier", <<"answer">>, <<>>, "full")
OldRow2 == ConversationRow(2, "s1", 1, "first", <<"answer">>, <<>>, "full")
OldRow3 == ConversationRow(3, "s1", 2, "second", <<"answer">>, <<>>, "no_results")

AgentRaised == [kind |-> "raised"]

\* What run_agent returns: the final output and the captured tool results of
\* a completed run (no tool results in selected-text mode), or the error
\* dict of a failed one.
RunAgentResults(sel) ==
    { [answer |-> Val(f), tool_results |-> t, error |-> Null] :
        f \in FinalOutputs,
        t \in (IF Truthy(sel) THEN {<<>>} ELSE {<<>>, <<Hit1>>}) }
    \cup { [answer |-> Null, tool_results |-> <<>>, error |-> Val(m)] : m \in ErrorMessages }

\* How a stream ends: done with the answer text, or error.
StreamEnds ==
    { [end |-> "done", answer |-> Val(f)] : f \in FinalOutputs } \cup
    { [end |-> "error", answer |-> Null] }

DbOutcomes == {"ok", "fail"}

\* The Authorization header of a request: a bearer token that verifies, no
\* bearer credentials, a token past its exp, a token that does not decode.
Credentials == {"valid", "missing", "expired", "malformed"}

\* limit of GET /history, around the clamp to 1..100.
HistoryLimits == {0, 1, 2, 101}

DEFAULT_HISTORY_LIMIT == 50

Handler(route, credential, sid, sel, limit) ==
    [pc |-> "new", endpoint |-> route, credential |-> credential, session_id |-> sid,
     selected_text |-> sel, limit |-> limit, admitted |-> FALSE,
     session |-> Null, conversation_history |-> Null, agent_result |-> NoResult,
     response |-> NoResponse, failed |-> {}]

\* The requests as they arrive.
ArrivingRequests ==
    { Handler(e, c, "s1", sel, DEFAULT_HISTORY_LIMIT) :
        e \in {"chat", "stream"}, c \in Credentials, sel \in {Null, Val(SelectionShort)} }
    \cup { Handler("history", c, "s1", Null, l) : c \in Credentials, l \in HistoryLimits }
    \cup { Handler("health", c, "s1", Null, DEFAULT_HISTORY_LIMIT) : c \in {"valid", "missing"} }

\* s2 is stored with one exchange; s1 is stored with two exchanges or
\* unknown.  Other clients hold no slot, or all slots but one.
InitChat ==
    /\ current_requests \in {0, MAX_CONCURRENT_REQUESTS - 1}
    /\ reqs = [p \in Phases |-> IF p = "new" THEN MaxRequests ELSE 0]
    /\ last_exit = NoneVal
    /\ InitRetryIdle
    /\ InitCiteIdle
    /\ InitAgentIdle
    /\ InitSearchIdle
    /\ InitChunkIdle
    /\ InitIngestIdle
    /\ call = NoCall
    /\ ret = Null
    /\ handlers \in [ChatRequests -> ArrivingRequests]
    /\ \E known \in BOOLEAN :
         /\ db_sessions = {SessionRow("s2", 0, 0)} \cup
                          (IF known THEN {SessionRow("s1", 1, 2)} ELSE {})
         /\ db_conversations = IF known THEN <<OldRow, OldRow2, OldRow3>> ELSE <<OldRow>>
    /\ clock = 3

chatOthers == <<reqs, last_exit, retryVars, citeVars, agentVars, call, ret, searchVars,
                chunkVars, ingestVars>>

\* verify_jwt_token with the token always accepted once it is present.
verify_jwt_token_unverified(credential) ==
    IF credential = "missing"
    THEN [ok |-> FALSE, status |-> 401, error_code |-> "UNAUTHORIZED"]
    ELSE [ok |-> TRUE, status |-> 200, error_code |-> "none"]

\* verify_jwt_token(credentials): the user, or HTTPException 401.
verify_jwt_token(credential) ==
    IF credential = "missing"
    THEN [ok |-> FALSE, status |-> 401, error_code |-> "UNAUTHORIZED"]
    ELSE IF credential = "expired"
    THEN [ok |-> FALSE, status |-> 401, error_code |-> "TOKEN_EXPIRED"]
    ELSE IF credential = "malformed"
    THEN [ok |-> FALSE, status |-> 401, error_code |-> "INVALID_TOKEN"]
    ELSE [ok |-> TRUE, status |-> 200, error_code |-> "none"]

\* chat, chat_stream, get_history: current_user = Depends(verify_jwt_token)
\* is resolved before the body of the handler runs; its HTTPException is the
\* response.
Authenticate(r) ==
    LET h == handlers[r]
        v == verify_jwt_token(h.credential)
    IN
    /\ h.pc = "new"
    /\ h.endpoint \in {"chat", "stream", "history"}
    /\ handlers' = [handlers EXCEPT ![r] =
         IF v.ok
         THEN [h EXCEPT !.pc = IF h.endpoint = "history" THEN "history" ELSE "acquire"]
         ELSE [h EXCEPT !.pc = "done",
                        !.response = [status |-> v.status, error_code |-> v.error_code]]]
    /\ UNCHANGED <<current_requests, db_sessions, db_conversations, clock>>
    /\ UNCHANGED chatOthers

\* health_check(): no dependency on verify_jwt_token; the services are
\* probed and their status reported.
HealthCheck(r) ==
    LET h == handlers[r] IN
    /\ h.pc = "new"
    /\ h.endpoint = "health"
    /\ \E s \in {"healthy", "degraded", "unavailable"} :
         handlers' = [handlers EXCEPT ![r] =
            [h EXCEPT !.pc = "done", !.response = [status |-> 200, health |-> s]]]
    /\ UNCHANGED <<current_requests, db_sessions, db_conversations, clock>>
    /\ UNCHANGED chatOthers

\* chat(), chat_stream(): if not await acquire_request_slot(): raise 429
AcquireSlot(r) ==
    LET h == handlers[r]
        a == acquire_request_slot(current_requests)
    IN
    /\ h.pc = "acquire"
    /\ current_requests' = a.count
    /\ handlers' = [handlers EXCEPT ![r] =
         IF a.ok
         THEN [h EXCEPT !.pc = "start", !.admitted = TRUE]
         ELSE [h EXCEPT !.pc = "done",
                        !.response = [status |-> 429, error_code |-> "RATE_LIMITED"]]]
    /\ UNCHANGED <<db_sessions, db_conversations, clock>>
    /\ UNCHANGED chatOthers

\* chat(): the position after "Get or create session".
AfterSession(session, sel) ==
    IF (~ session.null) /\ ~ Truthy(sel) THEN "get_context" ELSE "run_agent"

\* get_or_create_session: session = await get_session(session_id).  An
\* exception is caught in chat(): session = None.
ChatGetSession(r, o) ==
    LET h == handlers[r] IN
    /\ h.endpoint = "chat"
    /\ h.pc = "start"
    /\ handlers' = [handlers EXCEPT ![r] =
         IF o = "ok"
         THEN [h EXCEPT !.pc = IF SessionRows(h.session_id) # {}
                                THEN "update_activity" ELSE "create_session"]
         ELSE [h EXCEPT !.pc = AfterSession(Null, h.selected_text),
                        !.failed = @ \cup {"get_or_create_session"}]]
    /\ UNCHANGED <<current_requests, db_sessions, db_conversations, clock>>
    /\ UNCHANGED chatOthers

\* update_session_activity writing created_at as well.
update_session_activity_all_columns(sid) ==
    { IF row.session_id = sid THEN SessionRow(sid, clock, clock) ELSE row : row \in db_sessions }

\* update_session_activity: UPDATE sessions SET last_active = NOW()
\* WHERE session_id = :session_id
update_session_activity(sid) ==
    { IF row.session_id = sid THEN [row EXCEPT !.last_active = clock] ELSE row
        : row \in db_sessions }

\* get_or_create_session: await update_session_activity(session_id);
\* return session.
ChatUpdateActivity(r, o) ==
    LET h == handlers[r] IN
    /\ h.pc = "update_activity"
    /\ IF o = "ok"
       THEN /\ db_sessions' = update_session_activity(h.session_id)
            /\ clock' = clock + 1
            /\ handlers' = [handlers EXCEPT ![r] =
                 [h EXCEPT !.session = Val(h.session_id),
                           !.pc = AfterSession(Val(h.session_id), h.selected_text)]]
       ELSE /\ UNCHANGED <<db_sessions, clock>>
            /\ handlers' = [handlers EXCEPT ![r] =
                 [h EXCEPT !.pc = AfterSession(Null, h.selected_text),
                           !.failed = @ \cup {"get_or_create_session"}]]
    /\ UNCHANGED <<current_requests, db_conversations>>
    /\ UNCHANGED chatOthers

\* get_or_create_session: return await create_session(session_id).  The
\* INSERT is refused when a row with this primary key exists by now
\* (session_id UUID PRIMARY KEY), and fails when the statement fails.
ChatCreateSession(r, o) ==
    LET h        == handlers[r]
        conflict == SessionRows(h.session_id) # {}
    IN
    /\ h.pc = "create_session"
    /\ IF o = "ok" /\ ~ conflict
       THEN /\ db_sessions' = db_sessions \cup {SessionRow(h.session_id, clock, clock)}
            /\ clock' = clock + 1
            /\ handlers' = [handlers EXCEPT ![r] =
                 [h EXCEPT !.session = Val(h.session_id),
                           !.pc = AfterSession(Val(h.session_id), h.selected_text)]]
       ELSE /\ UNCHANGED <<db_sessions, clock>>
            /\ handlers' = [handlers EXCEPT ![r] =
                 [h EXCEPT !.pc = AfterSession(Null, h.selected_text),
                           !.failed = @ \cup (IF o = "ok" THEN {"primary_key_conflict"}
                                                         ELSE {"get_or_create_session"})]]
    /\ UNCHANGED <<current_requests, db_conversations>>
    /\ UNCHANGED chatOthers

\* The rows of a session, in the order of insertion.
RowsOf(sid) == SelectSeq(db_conversations, LAMBDA row : row.session_id = sid)

\* The last n entries of a sequence.
LastN(q, n) == SubSeq(q, Max2(1, Len(q) - n + 1), Len(q))

\* get_recent_context(session_id, limit): the query and the response of the
\* most recent exchanges, in chronological order.
get_recent_context(sid, limit) ==
    LET rows == LastN(RowsOf(sid), limit) IN
    [i \in 1..Len(rows) |-> [query |-> rows[i].query, response |-> rows[i].response]]

\* chat(): conversation_history = await get_recent_context(session_id,
\* limit=5); an exception is passed over.
ChatGetContext(r, o) ==
    LET h == handlers[r] IN
    /\ h.pc = "get_context"
    /\ handlers' = [handlers EXCEPT ![r] =
         IF o = "ok"
         THEN [h EXCEPT !.conversation_history =
                           Val(get_recent_context(h.session_id, RECENT_CONTEXT_LIMIT)),
                        !.pc = "run_agent"]
         ELSE [h EXCEPT !.pc = "run_agent",
                        !.failed = @ \cup {"get_recent_context"}]]
    /\ UNCHANGED <<current_requests, db_sessions, db_conversations, clock>>
    /\ UNCHANGED chatOthers

\* chat(): agent_result = await run_agent(...)
ChatRunAgent(r, result) ==
    LET h == handlers[r] IN
    /\ h.pc = "run_agent"
    /\ result \in RunAgentResults(h.selected_text)
    /\ handlers' = [handlers EXCEPT ![r] = [h EXCEPT !.agent_result = result, !.pc = "respond"]]
    /\ UNCHANGED <<current_requests, db_sessions, db_conversations, clock>>
    /\ UNCHANGED chatOthers

\* chat(): run_agent raises (build_agent fails); the exception leaves the
\* handler through finally: release_request_slot(), and the request is
\* answered 500.
ChatRunAgentRaises(r) ==
    LET h == handlers[r] IN
    /\ h.pc = "run_agent"
    /\ handlers' = [handlers EXCEPT ![r] =
         [h EXCEPT !.agent_result = AgentRaised,
                   !.response = [status |-> 500, error_code |-> "INTERNAL_ERROR"],
                   !.pc = "done"]]
    /\ current_requests' = release_request_slot(current_requests)
    /\ UNCHANGED <<db_sessions, db_conversations, clock>>
    /\ UNCHANGED chatOthers

\* save_conversation: one INSERT INTO conversations; id is the serial, the
\* query of request r is written as r.
save_conversation(r, sid, resp) ==
    Append(db_conversations,
           ConversationRow(Len(db_conversations) + 1, sid, clock, r,
                           resp.answer.v, resp.sources, resp.metadata.mode))

\* chat() from "Process results" to the return, with save_conversation
\* outside any try: a failed save answers 500.
ChatSaveAndReturn_unguarded(r, o) ==
    LET h    == handlers[r]
        resp == chat_response(h.selected_text, h.agent_result)
        save == (~ h.session.null) /\ Truthy(resp.answer)
    IN
    /\ h.pc = "respond"
    /\ IF save /\ o = "ok"
       THEN /\ db_conversations' = save_conversation(r, h.session_id, resp)
            /\ clock' = clock + 1
       ELSE UNCHANGED <<db_conversations, clock>>
    /\ handlers' = [handlers EXCEPT ![r] =
         [h EXCEPT !.response = IF save /\ o = "fail"
                                THEN [status |-> 500, error_code |-> "INTERNAL_ERROR"]
                                ELSE resp,
                   !.failed = IF save /\ o = "fail" THEN @ \cup {"save_conversation"} ELSE @,
                   !.pc = "done"]]
    /\ current_requests' = release_request_slot(current_requests)
    /\ UNCHANGED db_sessions
    /\ UNCHANGED chatOthers

\* chat() from "Process results" to the return: the response is built, then
\* "if session and answer:" the exchange is saved; an exception of the save
\* is logged and the response returned; finally: release_request_slot().
ChatSaveAndReturn(r, o) ==
    LET h    == handlers[r]
        resp == chat_response(h.selected_text, h.agent_result)
        save == (~ h.session.null) /\ Truthy(resp.answer)
    IN
    /\ h.pc = "respond"
    /\ IF save /\ o = "ok"
       THEN /\ db_conversations' = save_conversation(r, h.session_id, resp)
            /\ clock' = clock + 1
       ELSE UNCHANGED <<db_conversations, clock>>
    /\ handlers' = [handlers EXCEPT ![r] =
         [h EXCEPT !.response = resp,
                   !.failed = IF save /\ o = "fail" THEN @ \cup {"save_conversation"} ELSE @,
                   !.pc = "done"]]
    /\ current_requests' = release_request_slot(current_requests)
    /\ UNCHANGED db_sessions
    /\ UNCHANGED chatOthers

\* chat_stream(): generate_stream forwards the events of run_agent_streamed
\* until done or error, then releases the slot.  session_id only labels the
\* sources event; no function of db.py is called.
StreamExchange(r, e) ==
    LET h == handlers[r] IN
    /\ h.endpoint = "stream"
    /\ h.pc = "start"
    /\ handlers' = [handlers EXCEPT ![r] =
         [h EXCEPT !.response = [status |-> 200, stream_end |-> e.end, answer |-> e.answer],
                   !.pc = "done"]]
    /\ current_requests' = release_request_slot(current_requests)
    /\ UNCHANGED <<db_sessions, db_conversations, clock>>
    /\ UNCHANGED chatOthers

MAX_HISTORY_LIMIT == 100

\* get_history(): limit = max(1, min(limit, 100)), with the lower bound 0.
clamp_history_limit_from_zero(limit) == Max2(0, Min2(limit, MAX_HISTORY_LIMIT))

\* get_history(): limit = max(1, min(limit, 100))
clamp_history_limit(limit) == Max2(1, Min2(limit, MAX_HISTORY_LIMIT))

RECURSIVE OrderByTimestamp(_)
\* ORDER BY timestamp ASC
OrderByTimestamp(q) ==
    IF q = <<>> THEN <<>>
    ELSE LET first == CHOOSE i \in 1..Len(q) :
                         \A j \in 1..Len(q) :
                            \/ q[i].timestamp < q[j].timestamp
                            \/ (q[i].timestamp = q[j].timestamp /\ i <= j)
             rest  == [k \in 1..(Len(q) - 1) |-> IF k < first THEN q[k] ELSE q[k + 1]]
         IN  <<q[first]>> \o OrderByTimestamp(rest)

\* get_conversation_history(session_id, limit): SELECT timestamp, query,
\* response, sources FROM conversations WHERE session_id = :session_id
\* ORDER BY timestamp ASC LIMIT :limit, as HistoryEntry objects.
get_conversation_history(sid, limit) ==
    LET rows == OrderByTimestamp(RowsOf(sid))
        n    == Min2(limit, Len(rows))
    IN  [i \in 1..n |-> [timestamp |-> rows[i].timestamp, query |-> rows[i].query,
                         response |-> rows[i].response, sources |-> rows[i].sources]]

\* get_history(): session = await get_session(session_id); if not session:
\* 404 SESSION_NOT_FOUND.  An exception of the lookup is answered 500.
HistoryGetSession(r, o) ==
    LET h == handlers[r] IN
    /\ h.pc = "history"
    /\ handlers' = [handlers EXCEPT ![r] =
         IF o = "fail"
         THEN [h EXCEPT !.pc = "done", !.failed = @ \cup {"get_session"},
                        !.response = [status |-> 500, error_code |-> "INTERNAL_ERROR"]]
         ELSE IF SessionRows(h.session_id) = {}
         THEN [h EXCEPT !.pc = "done",
                        !.response = [status |-> 404, error_code |-> "SESSION_NOT_FOUND"]]
         ELSE [h EXCEPT !.pc = "history_entries"]]
    /\ UNCHANGED <<current_requests, db_sessions, db_conversations, clock>>
    /\ UNCHANGED chatOthers

\* get_history(): entries = await get_conversation_history(session_id,
\* limit=limit); the ConversationHistoryResponse.
HistoryGetEntries(r, o) ==
    LET h       == handlers[r]
        entries == get_conversation_history(h.session_id, clamp_history_limit(h.limit))
    IN
    /\ h.pc = "history_entries"
    /\ handlers' = [handlers EXCEPT ![r] =
         IF o = "fail"
         THEN [h EXCEPT !.pc = "done", !.failed = @ \cup {"get_conversation_history"},
                        !.response = [status |-> 500, error_code |-> "INTERNAL_ERROR"]]
         ELSE [h EXCEPT !.pc = "done",
                        !.response = [status |-> 200, session_id |-> h.session_id,
                                      entries |-> entries, total_entries |-> Len(entries)]]]
    /\ UNCHANGED <<current_requests, db_sessions, db_conversations, clock>>
    /\ UNCHANGED chatOthers

NextChat ==
    \E r \in ChatRequests :
        \/ Authenticate(r)
        \/ HealthCheck(r)
        \/ AcquireSlot(r)
        \/ \E o \in DbOutcomes : ChatGetSession(r, o)
        \/ \E o \in DbOutcomes : ChatUpdateActivity(r, o)
        \/ \E o \in DbOutcomes : ChatCreateSession(r, o)
        \/ \E o \in DbOutcomes : ChatGetContext(r, o)
        \/ \E result \in RunAgentResults(handlers[r].selected_text) : ChatRunAgent(r, result)
        \/ ChatRunAgentRaises(r)
        \/ \E o \in DbOutcomes : ChatSaveAndReturn(r, o)
        \/ \E e \in StreamEnds : StreamExchange(r, e)
        \/ \E o \in DbOutcomes : HistoryGetSession(r, o)
        \/ \E o \in DbOutcomes : HistoryGetEntries(r, o)

SpecChat == InitChat /\ [][NextChat]_vars

\* A /chat request whose run_agent call returned.
ChatReturned(r) ==
    /\ handlers[r].endpoint = "chat"
    /\ handlers[r].pc = "done"
    /\ handlers[r].agent_result # NoResult
    /\ handlers[r].agent_result # AgentRaised

\* C19: a failure to get or create the session, to load the history or to
\* save the conversation never turns a /chat request into an error response:
\* whatever failed, the request goes on to the agent run and is answered 200
\* with the response built from the agent result; only a raising agent run
\* gives another status.
C19_SessionFailuresSwallowed ==
    \A r \in ChatRequests :
        /\ ChatReturned(r) =>
              handlers[r].response = chat_response(handlers[r].selected_text,
                                                   handlers[r].agent_result)
        /\ (handlers[r].endpoint = "chat" /\ handlers[r].admitted
              /\ handlers[r].pc = "done" /\ handlers[r].response.status # 200) =>
              handlers[r].agent_result = AgentRaised
        /\ (handlers[r].endpoint = "chat" /\ handlers[r].failed # {}
              /\ handlers[r].pc # "done") =>
              handlers[r].pc \in {"get_context", "run_agent", "respond"}

\* One request lost its history and its save, the other its session; both
\* are answered 200 with an answer.
C19_Witness ==
    /\ ChatReturned("r1")
    /\ handlers["r1"].failed = {"get_recent_context", "save_conversation"}
    /\ handlers["r1"].response.status = 200
    /\ Truthy(handlers["r1"].response.answer)
    /\ ChatReturned("r2")
    /\ handlers["r2"].failed = {"get_or_create_session"}
    /\ handlers["r2"].response.status = 200
    /\ Truthy(handlers["r2"].response.answer)

\* The positions of the rows request r wrote.
RowsWrittenBy(r) ==
    { i \in 1..Len(db_conversations) : db_conversations[i].query = r }

\* An exchange on /chat or /chat/stream that completed: the response is 200,
\* the stream ended with done.
ExchangeCompleted(r) ==
    /\ handlers[r].endpoint \in {"chat", "stream"}
    /\ handlers[r].pc = "done"
    /\ handlers[r].response.status = 200
    /\ handlers[r].endpoint = "stream" => handlers[r].response.stream_end = "done"

\* C20: table conversations is append-only (the rows written before stay as
\* they are, ids are serial), and every completed exchange of a stored
\* session with a non-null answer, on /chat or on /chat/stream, has exactly
\* one row; an exchange with a null answer has none.
C20_OneRowPerExchange ==
    /\ db_conversations[1] = OldRow
    /\ \A i \in 1..Len(db_conversations) : db_conversations[i].id = i
    /\ \A r \in ChatRequests :
          (ExchangeCompleted(r) /\ SessionRows(handlers[r].session_id) # {}) =>
              /\ \A i \in RowsWrittenBy(r) :
                    db_conversations[i].session_id = handlers[r].session_id
              /\ Cardinality(RowsWrittenBy(r)) =
                    IF handlers[r].response.answer.null THEN 0 ELSE 1

\* The step is one in which get_or_create_session returns a session to
\* request r from position p.
SessionReturnedFrom(r, p) ==
    /\ handlers[r].pc = p
    /\ ~ handlers'[r].session.null

\* C21: get_or_create_session creates the row of an unknown id and, for a
\* known id, sets last_active and keeps created_at; at every moment there is
\* at most one row per id; no step deletes a session row or changes its
\* created_at; no step of a GET /history request changes table sessions.
C21_SessionLifecycle ==
    /\ [](\A row \in db_sessions : Cardinality(SessionRows(row.session_id)) = 1)
    /\ [][ /\ \A row \in db_sessions :
                \E kept \in db_sessions' :
                    kept.session_id = row.session_id /\ kept.created_at = row.created_at
           /\ \A r \in ChatRequests :
                LET sid == handlers[r].session_id IN
                /\ SessionReturnedFrom(r, "create_session") =>
                      /\ SessionRows(sid) = {}
                      /\ SessionRow(sid, clock, clock) \in db_sessions'
                /\ SessionReturnedFrom(r, "update_activity") =>
                      \E row \in SessionRows(sid) :
                          [row EXCEPT !.last_active = clock] \in db_sessions'
                /\ (handlers[r].endpoint = "history" /\ handlers'[r] # handlers[r]) =>
                      db_sessions' = db_sessions
         ]_vars

\* Session s1 was created by one request of the run and referred to again by
\* the other.
C21_Witness ==
    \E row \in SessionRows("s1") :
        /\ row.created_at >= 3
        /\ row.last_active > row.created_at
        /\ \A r \in ChatRequests : ~ handlers[r].session.null

\* The step is one of request r taken from position p.
StepFrom(r, p) ==
    /\ handlers[r].pc = p
    /\ handlers'[r] # handlers[r]

\* The entry is the stored exchange row, of session sid.
EntryOfRow(entry, row, sid) ==
    /\ row.session_id = sid
    /\ entry.timestamp = row.timestamp
    /\ entry.query = row.query
    /\ entry.response = row.response
    /\ entry.sources = row.sources

\* C22: GET /history/{session_id} with limit L answers 404 SESSION_NOT_FOUND
\* when the lookup finds no session; otherwise, unless a database call
\* fails, it answers 200 with min(clamp(L, 1, 100), number stored) entries,
\* each a stored exchange of that session, in ascending order of timestamp
\* and starting with the oldest, and total_entries is the number of entries.
C22_HistoryContract ==
    [][ \A r \in ChatRequests :
          LET sid    == handlers[r].session_id
              resp   == handlers'[r].response
              stored == { i \in 1..Len(db_conversations) :
                            db_conversations[i].session_id = sid }
              bound  == IF handlers[r].limit < 1 THEN 1
                        ELSE IF handlers[r].limit > 100 THEN 100 ELSE handlers[r].limit
          IN
          /\ (StepFrom(r, "history") /\ handlers'[r].failed = {}) =>
                IF \E row \in db_sessions : row.session_id = sid
                THEN handlers'[r].pc = "history_entries"
                ELSE /\ handlers'[r].pc = "done"
                     /\ resp = [status |-> 404, error_code |-> "SESSION_NOT_FOUND"]
          /\ (StepFrom(r, "history_entries") /\ handlers'[r].failed = {}) =>
                /\ resp.status = 200
                /\ resp.session_id = sid
                /\ resp.total_entries = Len(resp.entries)
                /\ Len(resp.entries) <= bound
                /\ Len(resp.entries) = Min2(bound, Cardinality(stored))
                /\ \A i \in 1..Len(resp.entries) :
                      \E k \in stored : EntryOfRow(resp.entries[i], db_conversations[k], sid)
                /\ \A i, j \in 1..Len(resp.entries) :
                      i < j => resp.entries[i].timestamp < resp.entries[j].timestamp
                /\ \A k \in stored :
                      \/ \E i \in 1..Len(resp.entries) :
                            resp.entries[i].timestamp = db_conversations[k].timestamp
                      \/ \A i \in 1..Len(resp.entries) :
                            resp.entries[i].timestamp < db_conversations[k].timestamp
      ]_vars

\* A history request with limit 0 got the oldest exchange of s1 alone, while
\* s1 holds the two earlier exchanges and one of the other request.
C22_Witness ==
    \E r \in ChatRequests :
        /\ handlers[r].endpoint = "history"
        /\ handlers[r].limit = 0
        /\ handlers[r].response.status = 200
        /\ handlers[r].response.total_entries = 1
        /\ handlers[r].response.entries[1].query = "first"
        /\ Len(RowsOf("s1")) = 3

\* A request to a protected endpoint whose credential is missing, expired
\* or malformed.
Unauthenticated(r) ==
    /\ handlers[r].endpoint \in {"chat", "stream", "history"}
    /\ handlers[r].credential \in {"missing", "expired", "malformed"}

ConcurrentFirstReference ==
    /\ \A r \in ChatRequests :
          /\ ChatReturned(r)
          /\ handlers[r].failed \subseteq {"primary_key_conflict"}
    /\ \A i \in 1..Len(db_conversations) : db_conversations[i] \notin {OldRow2, OldRow3}

\* C28: after concurrent /chat requests that name the same unknown session,
\* exactly one row of that session exists and every request that obtained an
\* answer (here: a non-empty one) has its exchange in the session's history.
C28_ConcurrentSessionCreation ==
    ConcurrentFirstReference =>
        /\ Cardinality(SessionRows("s1")) = 1
        /\ \A r \in ChatRequests :
              Truthy(handlers[r].response.answer) =>
                  \E i \in RowsWrittenBy(r) : db_conversations[i].session_id = "s1"

\* C25: whatever limit and score_threshold the model passes to
\* search_book_content, search is entered with limit in 1..10 and
\* score_threshold in 0.0..1.0; the call never ends with search's ValueError
\* for limit or score_threshold and never returns more than 10 results.
C25_ToolParametersClamped ==
    (search_args.via = "tool" /\ search_pc # "tool_entry") =>
        /\ search_args.limit \in 1..10
        /\ search_args.score_threshold \in 0..100
        /\ \A i \in 1..Len(external_calls) :
              /\ external_calls[i].limit \in 1..10
              /\ external_calls[i].score_threshold \in 0..100
        /\ search_result.kind = "raise" =>
              search_result.message \notin {"Limit must be between 1 and 20",
                                            "Score threshold must be between 0.0 and 1.0"}
        /\ search_result.kind = "return" => Len(search_result.results) <= 10
        /\ (~ tool_payload.null) => Len(tool_payload.v.results) <= 10

\* A tool call asked for more than 10 results, was clamped to 10 and returned
\* 10.
C25_Witness ==
    /\ search_args.via = "tool"
    /\ search_pc = "tool_returned"
    /\ search_args.limit = 10
    /\ Len(tool_payload.v.results) = 10

\* C26: the index query starts only from the embedding step and only when
\* the embedding call has returned (retries included); when the embedding
\* step ends otherwise, search raises (what _retry_with_backoff raised, if it
\* got that far) and the index is never queried; a SearchResponse is
\* returned only after an embedding call followed by an index query.
C26_EmbedBeforeQuery ==
    /\ [](/\ search_pc = "searching" =>
               (Len(external_calls) = 1 /\ external_calls[1].op = "embed")
          /\ \A i \in 1..Len(external_calls) :
               external_calls[i].op = "query_points" =>
                   (i = 2 /\ external_calls[1].op = "embed")
          /\ search_result.kind = "return" =>
               (Len(external_calls) = 2 /\ external_calls[2].op = "query_points"))
    /\ [][ /\ (search_pc' = "searching" /\ search_pc # "searching") =>
                (search_pc = "embedding" /\ retry_result.kind = "return")
           /\ (search_pc = "embedding" /\ search_pc' # "embedding"
                 /\ retry_result.kind # "return") =>
                /\ search_pc' = "search_raised"
                /\ search_result'.kind = "raise"
                /\ retry_result.kind = "raise" => search_result'.exc = retry_result.exc
           /\ (search_pc \in {"search_raised", "tool_returned", "tool_raised"}) =>
                search_pc' \notin {"embedding", "searching"}
         ]_vars

\* The embedding call succeeded at its second attempt, the index was queried
\* after it and search returned.
C26_Witness ==
    /\ Len(external_calls) = 2
    /\ external_calls[1].op = "embed"
    /\ external_calls[1].attempts = 2
    /\ external_calls[2].op = "query_points"
    /\ search_result.kind = "return"

\* C29: every index query made for a chat request through the tool carries
\* the filter built from the request's filters (source_url_prefix and
\* section, combined with AND).
C29_RequestFiltersApplied ==
    search_args.via = "tool" =>
        \A i \in 1..Len(external_calls) :
            external_calls[i].op = "query_points" =>
                external_calls[i].filter =
                    build_filter(search_args.request_filters.source_url_prefix,
                                 search_args.request_filters.section)

\* C30: the mode in the metadata of the sources record of a stream is the
\* mode /chat reports for the same selected_text, the same captured tool
\* results and the same outcome of the run.
C30_StreamModeEqualsChatMode ==
    StreamEnded =>
        \A i \in 1..Len(sse) :
            sse[i].tag = "sources" =>
                sse[i].mode = chat_response(selected_text, RunAgentCounterpart).metadata.mode

(***************************************************************************)
(* chunk_text: main.py                                                     *)
(***************************************************************************)
CHUNK_SIZE    == 1400
CHUNK_OVERLAP == 240

\* The separators as sequences of characters, in priority order.
SEPARATORS ==
    << <<"\n", "#", "#", " ">>,
       <<"\n", "#", "#", "#", " ">>,
       <<"\n", "#", "#", "#", "#", " ">>,
       <<"\n", "\n">>,
       <<"\n">>,
       <<" ">> >>

RECURSIVE CharAt(_, _)
\* text[i], for 0 <= i < len(text)
CharAt(t, i) ==
    IF i < Head(t).n THEN Head(t).c ELSE CharAt(Tail(t), i - Head(t).n)

RECURSIVE TDrop(_, _)
\* text[k:]
TDrop(t, k) ==
    IF k <= 0 \/ t = <<>> THEN t
    ELSE IF Head(t).n <= k
         THEN TDrop(Tail(t), k - Head(t).n)
         ELSE <<Run(Head(t).c, Head(t).n - k)>> \o Tail(t)

\* text[a:b]
TSlice(t, a, b) == TTake(TDrop(t, a), b - a)

\* The offsets at which a run of the text ends.
RunEnds(t) == { TLen(SubSeq(t, 1, k)) : k \in 1..Len(t) }

\* sep occurs in the text at offset p.
OccursAt(t, sep, p) == \A k \in 1..Len(sep) : CharAt(t, p + k - 1) = sep[k]

\* text.rfind(sep, from, to) for to <= len(text): the highest offset p with
\* from <= p and p + len(sep) <= to at which sep occurs, or -1.  The highest
\* occurrence is at the end of the range or has the end of a run among the
\* offsets p .. p + len(sep); at any other offset p the text reads the same at
\* p + 1, so only those offsets are searched.
rfind(t, sep, from, to) ==
    LET near  == {to - Len(sep)} \cup { b - j : b \in RunEnds(t), j \in 0..Len(sep) }
        found == { p \in near : p >= from /\ p + Len(sep) <= to /\ OccursAt(t, sep, p) }
    IN  IF found = {} THEN -1 ELSE CHOOSE p \in found : \A q \in found : q <= p

\* best_split after the loop over SEPARATORS: past the last occurrence of the
\* first separator that occurs after start, else the end of the window.
best_split(t, from, to) ==
    LET usable == { i \in 1..Len(SEPARATORS) : rfind(t, SEPARATORS[i], from, to) > from }
    IN  IF usable = {} THEN to
        ELSE LET i == CHOOSE j \in usable : \A k \in usable : j <= k
             IN  rfind(t, SEPARATORS[i], from, to) + Len(SEPARATORS[i])

\* hashlib.sha256(f"{source_url}:{position}").hexdigest()[:32]: one id for
\* each pair of URL and position.
chunk_id(source_url, position) == <<source_url, position>>

Chunk(source_url, position, content) ==
    [id |-> chunk_id(source_url, position), text |-> content, position |-> position]

ChunkState(t, from, position, list, at) ==
    [text |-> t, start |-> from, position |-> position, chunks |-> list, pc |-> at]

\* start = end - CHUNK_OVERLAP; if start < 0: start = 0
next_start(to) == IF to - CHUNK_OVERLAP < 0 THEN 0 ELSE to - CHUNK_OVERLAP

\* One test of the while condition of chunk_text and, when it holds, one
\* execution of the loop body, from the locals s.
chunk_iteration(s, source_url) ==
    IF ~ (s.start < TLen(s.text))
    THEN [s EXCEPT !.pc = "returned"]
    ELSE LET window  == s.start + CHUNK_SIZE
             to      == IF window < TLen(s.text)
                        THEN best_split(s.text, s.start, window)
                        ELSE window
             content == TNorm(TStrip(TSlice(s.text, s.start, to)))
             kept    == content # <<>>
             from    == next_start(to)
         IN  ChunkState(s.text, from,
                        IF kept THEN s.position + 1 ELSE s.position,
                        IF kept THEN Append(s.chunks, Chunk(source_url, s.position, content))
                                ELSE s.chunks,
                        IF from >= TLen(s.text) \/ to >= TLen(s.text)
                        THEN "returned" ELSE "loop")

CHUNK_URL == "/docs/m1"

\* The chunks of one call the model follows.
MaxChunks == 4

Words(a, sep, b, c) ==
    <<Run("x", a)>> \o sep \o <<Run("x", b), Run(" ", 1), Run("x", c)>>

HeadLengths == {1, 239, 240, 900}
BodyLengths == {100, 1000, 1500}
TailLengths == {50, 1500}
InnerSeparators ==
    { <<Run(" ", 1)>>, <<Run("\n", 2)>>, <<Run("\n", 1), Run("#", 2), Run(" ", 1)>> }

\* The texts chunk_text is called with: the empty text, a text without and a
\* text of nothing but separators, and words of several lengths.
ChunkInputs ==
    { <<>>, <<Run("x", 3000)>>, <<Run(" ", 1500)>>, <<Run(" ", 2), Run("x", 2000)>> } \cup
    { Words(a, sep, b, c) : a \in HeadLengths, sep \in InnerSeparators,
                            b \in BodyLengths, c \in TailLengths }

InitChunk ==
    /\ InitAdmission
    /\ InitRetryIdle
    /\ InitCiteIdle
    /\ InitAgentIdle
    /\ InitSearchIdle
    /\ InitChatIdle
    /\ InitIngestIdle
    /\ call = NoCall
    /\ ret = Null
    /\ chunk_input \in ChunkInputs
    /\ chunk_start = 0
    /\ chunk_position = 0
    /\ chunk_list = <<>>
    /\ chunk_pc = "loop"

chunkOthers == <<admVars, retryVars, citeVars, agentVars, call, ret, searchVars, chatVars,
                 ingestVars>>

ChunkLocals == ChunkState(chunk_input, chunk_start, chunk_position, chunk_list, chunk_pc)

\* The while loop of chunk_text: one test of its condition and one body.
ChunkIteration ==
    /\ chunk_pc = "loop"
    /\ Len(chunk_list) < MaxChunks
    /\ LET s == chunk_iteration(ChunkLocals, CHUNK_URL)
       IN  /\ chunk_start' = s.start
           /\ chunk_position' = s.position
           /\ chunk_list' = s.chunks
           /\ chunk_pc' = s.pc
    /\ UNCHANGED <<chunk_input, chunkOthers>>

NextChunk == ChunkIteration

SpecChunk == InitChunk /\ [][NextChunk]_vars

\* C27: chunk_text returns chunks with the positions 0, 1, 2, ... and every
\* iteration that is followed by another one has moved start forward, also
\* when the separator chosen lies fewer than CHUNK_OVERLAP characters after
\* the start of the window; so the loop ends for every text.
C27_ChunkTextTerminates ==
    /\ [](\A i \in 1..Len(chunk_list) : chunk_list[i].position = i - 1)
    /\ [][(ChunkIteration /\ chunk_pc' = "loop") => chunk_start' > chunk_start]_vars

(***************************************************************************)
(* Ingestion runs of main() over one URL: main.py                          *)
(***************************************************************************)
RECURSIVE chunk_loop(_, _)
chunk_loop(s, source_url) ==
    IF s.pc = "returned" THEN s.chunks
    ELSE chunk_loop(chunk_iteration(s, source_url), source_url)

\* chunk_text(text, source_url)
chunk_text(t, source_url) == chunk_loop(ChunkState(t, 0, 0, <<>>, "loop"), source_url)

MIN_CONTENT_LENGTH == 100

\* hashlib.sha256(text.encode()).hexdigest(): one hash for each text.
content_hash(t) == [sha256 |-> TNorm(t)]

\* The texts normalize_whitespace leaves of the versions of the page: three,
\* two and one chunk long, and one with too little content.
DocLong  == <<Run("x", 1000), Run(" ", 1), Run("x", 1000), Run(" ", 1), Run("x", 1000)>>
DocMid   == <<Run("y", 1000), Run(" ", 1), Run("y", 600)>>
DocShort == <<Run("z", 120)>>
DocTiny  == <<Run("z", 50)>>
Documents == {DocLong, DocMid, DocShort, DocTiny}

\* The runs of the loop body the model follows.
MaxIngestRuns == 3

MaxDocChunks == 3

\* The orders in which the ids sha256(url:position) of the points can lie.
ScrollOrders ==
    { o \in [1..MaxDocChunks -> 0..(MaxDocChunks - 1)] :
        \A i, j \in 1..MaxDocChunks : i # j => o[i] # o[j] }

StepOutcomes == {"ok", "raised"}

\* The collection is empty before the first run; the site serves some
\* version of the page.
InitIngest ==
    /\ InitAdmission
    /\ InitRetryIdle
    /\ InitCiteIdle
    /\ InitAgentIdle
    /\ InitSearchIdle
    /\ InitChatIdle
    /\ InitChunkIdle
    /\ call = NoCall
    /\ ret = Null
    /\ page \in Documents
    /\ collection = {}
    /\ scroll_order \in ScrollOrders
    /\ ingest_pc = "idle"
    /\ ingest_run = NoRun
    /\ ingest_outcome = "none"
    /\ last_ingested = Null
    /\ ingest_runs = 0

ingestOthers == <<admVars, retryVars, citeVars, agentVars, call, ret, searchVars, chatVars,
                  chunkVars>>

\* The page is edited between two runs.
PageEdited(d) ==
    /\ ingest_pc = "idle"
    /\ ingest_runs < MaxIngestRuns
    /\ d # page
    /\ page' = d
    /\ UNCHANGED <<collection, scroll_order, ingest_pc, ingest_run, ingest_outcome,
                   last_ingested, ingest_runs, ingestOthers>>

\* except Exception of the loop body: the URL is counted as failed.
RunFailed ==
    /\ ingest_pc' = "idle"
    /\ ingest_outcome' = "failed"

\* extract_text_from_url(url): the fetch fails, or the text is too short, or
\* the text and its hash are returned.
ExtractText(o) ==
    /\ ingest_pc = "idle"
    /\ ingest_runs < MaxIngestRuns
    /\ ingest_runs' = ingest_runs + 1
    /\ IF o = "ok" /\ TLen(page) >= MIN_CONTENT_LENGTH
       THEN /\ ingest_run' = [text |-> page, content_hash |-> Val(content_hash(page)),
                              chunks |-> <<>>]
            /\ ingest_pc' = "extracted"
            /\ UNCHANGED ingest_outcome
       ELSE /\ RunFailed
            /\ ingest_run' = NoRun
    /\ UNCHANGED <<page, collection, scroll_order, last_ingested, ingestOthers>>

\* scroll(filter source_url = url, limit = 1): the stored point of the URL with
\* the lowest id, if there is one.
scroll_first(points, source_url) ==
    LET mine == { q \in points : q.source_url = source_url }
        rank(q) == CHOOSE i \in 1..Len(scroll_order) : scroll_order[i] = q.chunk_position
    IN  IF mine = {} THEN <<>>
        ELSE <<CHOOSE q \in mine : \A r \in mine : rank(q) <= rank(r)>>

\* check_content_unchanged(qdrant, url, content_hash)
check_content_unchanged(points, source_url, hash, o) ==
    IF o = "raised" THEN FALSE
    ELSE LET found == scroll_first(points, source_url)
         IN  IF found # <<>> THEN found[1].content_hash = hash ELSE FALSE

\* if check_content_unchanged(...): skipped, continue
CheckContentUnchanged(o) ==
    /\ ingest_pc = "extracted"
    /\ IF check_content_unchanged(collection, CHUNK_URL, ingest_run.content_hash.v, o)
       THEN /\ ingest_pc' = "idle"
            /\ ingest_outcome' = "skipped"
       ELSE /\ ingest_pc' = "changed"
            /\ UNCHANGED ingest_outcome
    /\ UNCHANGED <<page, collection, scroll_order, ingest_run, last_ingested, ingest_runs,
                   ingestOthers>>

\* chunks = chunk_text(text, url); embeddings = embed(chunk_texts, co)
ChunkAndEmbed(o) ==
    /\ ingest_pc = "changed"
    /\ IF o = "ok"
       THEN /\ ingest_run' = [ingest_run EXCEPT !.chunks = chunk_text(ingest_run.text, CHUNK_URL)]
            /\ ingest_pc' = "embedded"
            /\ UNCHANGED ingest_outcome
       ELSE /\ RunFailed
            /\ UNCHANGED ingest_run
    /\ UNCHANGED <<page, collection, scroll_order, last_ingested, ingest_runs, ingestOthers>>

\* The PointStruct save_chunk_to_qdrant builds for a chunk.
Point(chunk, source_url, hash) ==
    [id |-> chunk.id, source_url |-> source_url, chunk_position |-> chunk.position,
     chunk_text |-> chunk.text, content_hash |-> hash]

\* qdrant_client.upsert(points): a point replaces the stored point of its id.
upsert(points, new) ==
    { q \in points : \A n \in new : n.id # q.id } \cup new

\* save_chunk_to_qdrant(qdrant, chunks, embeddings, metadata)
SaveChunks(o) ==
    /\ ingest_pc = "embedded"
    /\ IF o = "ok"
       THEN /\ collection' = upsert(collection,
                                { Point(ingest_run.chunks[i], CHUNK_URL, ingest_run.content_hash.v) :
                                    i \in 1..Len(ingest_run.chunks) })
            /\ last_ingested' = Val(ingest_run.text)
            /\ ingest_pc' = "idle"
            /\ ingest_outcome' = "processed"
       ELSE /\ RunFailed
            /\ UNCHANGED <<collection, last_ingested>>
    /\ UNCHANGED <<page, scroll_order, ingest_run, ingest_runs, ingestOthers>>

NextIngest ==
    \/ \E d \in Documents : PageEdited(d)
    \/ \E o \in StepOutcomes : ExtractText(o)
    \/ \E o \in StepOutcomes : CheckContentUnchanged(o)
    \/ \E o \in StepOutcomes : ChunkAndEmbed(o)
    \/ \E o \in StepOutcomes : SaveChunks(o)

SpecIngest == InitIngest /\ [][NextIngest]_vars

\* C24: a run skips the URL exactly when the text it extracted is the text of
\* the last run that stored the document; otherwise it goes on to chunk,
\* embed and upsert it.
C24_SkipExactlyWhenUnchanged ==
    [][(ingest_pc = "extracted" /\ ingest_pc' # "extracted") =>
          ((ingest_pc' = "idle" /\ ingest_outcome' = "skipped")
              <=> last_ingested = Val(ingest_run.text))]_vars

====
